---- MODULE Spec2Model ----
(***************************************************************************)
(* world-water-levels-visuals: flood display, simulation engine, scenario  *)
(* resolver and start-up.                                                  *)
(*                                                                         *)
(* The module state of src/src/floodVisualization.js (material, the two    *)
(* snapshots, the animated alpha), the exported operations on it, the      *)
(* per-frame animate callback and the two fragment shaders; runSimulation  *)
(* and computeStats of simulation.js; getProjectedTemp of projections.js;  *)
(* loadGeoidTexture and init() of main.js; the controls of ui.js and the   *)
(* overlay of onboarding.js.                                               *)
(*                                                                         *)
(* Number representation                                                   *)
(*   alpha values   : millionths (0.55 = 550000), products truncated       *)
(*   heights, SLR   : units of 5 cm (edgeSoftness 0.35 m = 7)              *)
(*   shader floats  : float32 values as mantissa and exponent, for heights,*)
(*                    surfaces, floodMask and material.alpha               *)
(*   sampled values : units of 0.01 mm, each the float64 nearest to it in  *)
(*                    metres; a mean is sum, n and the float64 quotient    *)
(*   temperatures   : thousandths of a degree in projections.js and ui.js, *)
(*                    hundredths in simulation.js                          *)
(***************************************************************************)
EXTENDS Integers, Sequences, FiniteSets, TLC

---------------------------------------------------------------------------
(* Bounds of the model *)

\* seaLevelRise arguments range over -1 .. MaxSLR
MaxSLR == 2
\* simulation result objects are identified by 1 .. MaxResult, null by 0
MaxResult == 1
\* Date.now() returns values in 0 .. MaxClock, never decreasing
MaxClock == 0
\* terrain heights of rendered fragments range over -MaxHeight .. MaxHeight
MaxHeight == 12

---------------------------------------------------------------------------
(* Program constants *)

\* alpha 1.0 in the fixed-point unit
AlphaOne == 1000000
\* targetAlpha = 0.55
FLOOD_TARGET_ALPHA == 550000
\* Math.abs(diff) > 0.005
ALPHA_SNAP == 5000
\* waterAlpha += diff * 0.08, as a fraction ALPHA_RATE_NUM / ALPHA_RATE_DEN
ALPHA_RATE_NUM == 8
ALPHA_RATE_DEN == 100
\* float edgeSoftness = 0.35 (metres), in height units
EdgeSoftness == 7
\* if (floodMask > 0.001): the threshold is 1 / FLOOD_MASK_EPS_DEN
FLOOD_MASK_EPS_DEN == 1000
\* material.alpha = 0.5 of the comparison band
COMPARISON_ALPHA == 500000
\* materialInput.waterMask > 0.5, the mask in tenths
WATER_MASK_HALF == 5
\* GEOID_MIN = -107.0 and GEOID_RANGE = 193.0 (metres), in height units
GEOID_MIN == -2140
GEOID_RANGE == 3860
\* the 16-bit full scale of the two-channel encoding
GEOID_FULL_SCALE == 65535

---------------------------------------------------------------------------
(* State *)

VARIABLES
  floodMaterial,     \* let floodMaterial: NoMaterial or a Material
  previousSnapshot,  \* let previousSnapshot: NoSnapshot or a snapshot
  currentSnapshot,   \* let currentSnapshot
  animationFrame,    \* let animationFrame: 0 (null) or the pending callback's handle
  waterAlpha,        \* let waterAlpha
  targetAlpha,       \* let targetAlpha
  alphaAnimating,    \* let alphaAnimating
  useGeoidTexture,   \* let useGeoidTexture
  globeMaterial,     \* viewer.scene.globe.material: "undefined" or "floodMaterial"
  fadePolicy,        \* which clearFlood is linked: "immediate" (current) or "fading"
  clock,             \* the last value Date.now() returned
  lastOp,            \* history: the last operation and what it returned
  materialInput,     \* czm_materialInput of the fragment being shaded
  material           \* czm_material the shader returned for it, or NoOutput

VARIABLES
  geoidLoad,         \* main.js init(): the single loadGeoidTexture() call and its result
  sim,               \* the runSimulation invocation in progress, or the idle record
  prevRun,           \* history: the invocation that returned before the current one
  statsInput,        \* the array handed to computeStats
  statsResult,       \* what computeStats returned for it
  projection         \* the getProjectedTemp call and its outcome

VARIABLES
  animatePending,          \* browser: animate callbacks pending in requestAnimationFrame
  destroyed,               \* history: destroyFloodVisualization has been called
  currentActiveTemp,       \* ui.js let currentActiveTemp, in thousandths of a degree
  currentSimulationResult, \* ui.js let currentSimulationResult: Null or a result
  currentFloodMetric,      \* ui.js let currentFloodMetric: "median" or "p95"
  comparing,               \* setupComparisonButton: let comparing
  compareBtn,              \* the #compareBtn element: disabled, textContent
  rafCallbacks,            \* browser: the runAndVisualize callbacks pending, oldest first
  fineClicks,              \* history: how many plus and minus clicks were handled
  histogram,               \* ui.js let histogramChart: NoCall (null) or the chart's data
  currentSlide,            \* onboarding.js let currentSlide
  overlayEl,               \* onboarding.js let overlayEl: "null" or "element"
  onboarding               \* browser side of showOnboarding: DOM, timers, promise

vars == <<floodMaterial, previousSnapshot, currentSnapshot, animationFrame,
          waterAlpha, targetAlpha, alphaAnimating, useGeoidTexture,
          globeMaterial, fadePolicy, clock, lastOp, materialInput, material,
          geoidLoad, sim, prevRun, statsInput, statsResult, projection,
          animatePending, destroyed, currentActiveTemp, currentSimulationResult,
          currentFloodMetric, comparing, compareBtn, rafCallbacks, fineClicks,
          histogram, currentSlide, overlayEl, onboarding>>

\* the variables of simulation.js, its statistics and projections.js
engineVars == <<sim, prevRun, statsInput, statsResult, projection>>

\* the variables of ui.js and the callbacks it has pending in the browser
uiVars == <<currentActiveTemp, currentSimulationResult, currentFloodMetric,
            comparing, compareBtn, rafCallbacks, fineClicks>>

onboardingVars == <<currentSlide, overlayEl, onboarding>>

appVars == <<uiVars, histogram, onboardingVars, destroyed>>

\* the variables of the fragment shader run
shaderVars == <<materialInput, material>>

NoMaterial == [type |-> "null"]
NoSnapshot == [kind |-> "null"]

SLRInputs == (-1) .. MaxSLR
\* a simulationResult argument by identity: 0 is null, the others are result objects
ResultIds == 0 .. MaxResult
ClockValues == 0 .. MaxClock

\* The module-level variables as one record, the value the operations transform.
ModuleState ==
  [floodMaterial    |-> floodMaterial,
   previousSnapshot |-> previousSnapshot,
   currentSnapshot  |-> currentSnapshot,
   animationFrame   |-> animationFrame,
   waterAlpha       |-> waterAlpha,
   targetAlpha      |-> targetAlpha,
   alphaAnimating   |-> alphaAnimating,
   useGeoidTexture  |-> useGeoidTexture,
   globeMaterial    |-> globeMaterial]

\* new Material({fabric: {type: "FloodGeoid", uniforms: {...}}})
GeoidMaterial ==
  [type |-> "FloodGeoid",
   uniforms |-> [seaLevelRise |-> 0, comparisonSLR |-> 0, waterAlpha |-> 0]]

\* new Material({fabric: {type: "FloodFallback", uniforms: {...}}})
FallbackMaterial ==
  [type |-> "FloodFallback",
   uniforms |-> [floodLevel |-> 0, waterAlpha |-> 0, comparisonLevel |-> 0]]

\* floodMaterial.uniforms.<name> = value
SetUniform(m, name, value) == [m EXCEPT !.uniforms[name] = value]

\* the flood-level uniform of a material: seaLevelRise, or floodLevel in fallback mode
LevelUniform(m) ==
  IF m.type = "FloodGeoid" THEN m.uniforms.seaLevelRise ELSE m.uniforms.floodLevel

\* the comparison uniform of a material: comparisonSLR, or comparisonLevel
ComparisonUniform(m) ==
  IF m.type = "FloodGeoid" THEN m.uniforms.comparisonSLR ELSE m.uniforms.comparisonLevel

---------------------------------------------------------------------------
(* The fragment shaders FLOOD_SHADER_GEOID and FLOOD_SHADER_FALLBACK *)

NoFragment == [none |-> TRUE]
NoOutput == [none |-> TRUE]

\* vec3 colours in hundredths
DEFAULT_DIFFUSE == <<0, 0, 0>>
FLOOD_COLOR == <<100, 65, 0>>
COMPARISON_COLOR == <<100, 30, 10>>

Min(a, b) == IF a <= b THEN a ELSE b
Max(a, b) == IF a >= b THEN a ELSE b

(* Number representation of the shader's floats                              *)
(*   every float of the shader (materialInput.height, geoidUndulation, the   *)
(*     flood and comparison surfaces, the operands and the value of          *)
(*     smoothstep, floodMask, material.alpha) : IEEE binary32, the record    *)
(*     [m, e] for m * 2^e; every operation rounds to nearest, ties to even,  *)
(*     in the order the source writes it. Exponents are not limited: no      *)
(*     value here is near the overflow or the subnormal range.               *)
(*   uniforms : whole height units (UniformFloat) and millionths of alpha    *)
(*     (AlphaFloat) in the module state, the nearest float32 in the shader   *)

\* powers of two 2^0 .. 2^30
Pow2 ==
  <<1, 2, 4, 8, 16, 32, 64, 128, 256, 512, 1024, 2048, 4096, 8192, 16384, 32768,
    65536, 131072, 262144, 524288, 1048576, 2097152, 4194304, 8388608, 16777216,
    33554432, 67108864, 134217728, 268435456, 536870912, 1073741824>>
TwoTo(k) == Pow2[k + 1]

\* the number of binary digits of n: below 2^2, 2^4, 2^8, 2^16 and 2^31
BitLen2(n) == IF n >= 2 THEN 2 ELSE n
BitLen4(n) == IF n >= 4 THEN 2 + BitLen2(n \div 4) ELSE BitLen2(n)
BitLen8(n) == IF n >= 16 THEN 4 + BitLen4(n \div 16) ELSE BitLen4(n)
BitLen16(n) == IF n >= 256 THEN 8 + BitLen8(n \div 256) ELSE BitLen8(n)
BitLen(n) == IF n >= 65536 THEN 16 + BitLen16(n \div 65536) ELSE BitLen16(n)

Sign(x) == IF x > 0 THEN 1 ELSE IF x < 0 THEN -1 ELSE 0
Abs(x) == IF x >= 0 THEN x ELSE -x

\* a float32 is [m, e] with 2^23 <= |m| < 2^24, or F32Zero
F32Zero == [m |-> 0, e |-> 0]

\* sign * q * 2^e for 2^23 <= q <= 2^24
F32Renormal(sign, q, e) ==
  IF q = TwoTo(24) THEN [m |-> sign * TwoTo(23), e |-> e + 1]
  ELSE [m |-> sign * q, e |-> e]

\* n has k digits more than 24: they are cut off, and the last digit kept goes up if
\* they are more than half, or are half and that digit is odd
F32RoundTo(sign, n, e, sticky, k) ==
  IF k <= 0 THEN [m |-> sign * n * TwoTo(-k), e |-> e + k]
  ELSE F32Renormal(sign,
         IF \/ n % TwoTo(k) > TwoTo(k - 1)
            \/ n % TwoTo(k) = TwoTo(k - 1) /\ (sticky \/ (n \div TwoTo(k)) % 2 = 1)
         THEN n \div TwoTo(k) + 1
         ELSE n \div TwoTo(k),
         e + k)

\* round to nearest, ties to even: the float32 nearest to sign * (n + f) * 2^e, for
\* an integer 0 <= n < 2^31 and a fraction f in [0, 1) that is nonzero iff sticky
\* (a sticky n has at least 26 digits)
F32Round(sign, n, e, sticky) ==
  IF n = 0 THEN F32Zero ELSE F32RoundTo(sign, n, e, sticky, BitLen(n) - 24)

\* sign * (1 + r / d) * 2^(e + 26) for 0 <= r < d < 2^17: the quotient is divided
\* out to 26 binary places
F32Quotient(sign, r, d, e) ==
  LET q1 == (r * TwoTo(13)) \div d
      r1 == (r * TwoTo(13)) % d
  IN F32Round(sign, TwoTo(26) + q1 * TwoTo(13) + (r1 * TwoTo(13)) \div d, e,
              (r1 * TwoTo(13)) % d # 0)

\* sign * (a / d) * 2^s for a and d of the same number of digits
F32Aligned(sign, a, d, s) ==
  IF a < d THEN F32Quotient(sign, 2 * a - d, d, s - 27)
  ELSE F32Quotient(sign, a - d, d, s - 26)

\* sign * a / d, a having s digits more than d
F32Scaled(sign, a, d, s) ==
  F32Aligned(sign, IF s < 0 THEN a * TwoTo(-s) ELSE a, IF s > 0 THEN d * TwoTo(s) ELSE d, s)

\* the float32 nearest to n / d, for integers |n| < 2^17 and 0 < d < 2^17
F32FromRatio(n, d) ==
  IF n = 0 THEN F32Zero
  ELSE F32Scaled(Sign(n), Abs(n), d, BitLen(Abs(n)) - BitLen(d))

\* the exact product of two naturals below 2^24 as <<high, low>>: high * 2^24 + low
Mul24(a, b) ==
  LET ah == a \div TwoTo(12)
      al == a % TwoTo(12)
      bh == b \div TwoTo(12)
      bl == b % TwoTo(12)
      mid == ah * bl + al * bh
      low == (mid % TwoTo(12)) * TwoTo(12) + al * bl
  IN <<ah * bh + mid \div TwoTo(12) + low \div TwoTo(24), low % TwoTo(24)>>

\* sign * p * 2^e for a product p = <<high, low>>
F32RoundProduct(sign, p, e) ==
  F32Round(sign, p[1] * TwoTo(6) + p[2] \div TwoTo(18), e + 18, p[2] % TwoTo(18) # 0)

\* a * b in float32
F32Mul(a, b) ==
  IF a.m = 0 \/ b.m = 0 THEN F32Zero
  ELSE F32RoundProduct(Sign(a.m) * Sign(b.m), Mul24(Abs(a.m), Abs(b.m)), a.e + b.e)

\* x * 2^e for an integer x
F32RoundInteger(x, e) == F32Round(Sign(x), Abs(x), e, FALSE)

\* a + b for a.e > b.e + 6: b is cut 6 places below a, the rest being sticky
F32AddCut(a, b, kept, sticky) ==
  F32Round(Sign(a.m),
           IF Sign(a.m) = Sign(b.m) THEN Abs(a.m) * TwoTo(6) + kept
           ELSE Abs(a.m) * TwoTo(6) - kept - (IF sticky THEN 1 ELSE 0),
           a.e - 6, sticky)

\* a + b in float32 for a.e >= b.e, d places apart: the sum is formed exactly when b
\* lies at most 6 places below a
F32AddApart(a, b, d) ==
  IF d <= 6 THEN F32RoundInteger(a.m * TwoTo(d) + b.m, b.e)
  ELSE IF d > 26 THEN a
  ELSE F32AddCut(a, b, Abs(b.m) \div TwoTo(d - 6), Abs(b.m) % TwoTo(d - 6) # 0)

F32AddOrdered(a, b) == F32AddApart(a, b, a.e - b.e)

\* a + b in float32
F32Add(a, b) ==
  IF a.m = 0 THEN b
  ELSE IF b.m = 0 THEN a
  ELSE IF a.e >= b.e THEN F32AddOrdered(a, b) ELSE F32AddOrdered(b, a)

\* a < b
F32Less(a, b) ==
  IF Sign(a.m) # Sign(b.m) THEN Sign(a.m) < Sign(b.m)
  ELSE IF a.m = 0 THEN FALSE
  ELSE IF a.e # b.e THEN (IF a.m > 0 THEN a.e < b.e ELSE a.e > b.e)
  ELSE a.m < b.m

\* GLSL min and max
F32Min(a, b) == IF F32Less(b, a) THEN b ELSE a
F32Max(a, b) == IF F32Less(a, b) THEN b ELSE a

\* the next float32 above a nonzero a, and the next below it
F32Up(a) ==
  IF a.m = TwoTo(24) - 1 THEN [m |-> TwoTo(23), e |-> a.e + 1]
  ELSE IF a.m = - TwoTo(23) THEN [m |-> 1 - TwoTo(24), e |-> a.e - 1]
  ELSE [a EXCEPT !.m = @ + 1]
F32Down(a) ==
  IF a.m = 1 - TwoTo(24) THEN [m |-> - TwoTo(23), e |-> a.e + 1]
  ELSE IF a.m = TwoTo(23) THEN [m |-> TwoTo(24) - 1, e |-> a.e - 1]
  ELSE [a EXCEPT !.m = @ - 1]

\* the floats of the whole height units up to MaxHeight, computed once
UNIFORM_FLOATS == [units \in (-MaxHeight) .. MaxHeight |-> F32FromRatio(units, 20)]

\* a uniform, kept in whole height units, as the float the shader reads: metres
UniformFloat(units) ==
  IF units \in DOMAIN UNIFORM_FLOATS THEN UNIFORM_FLOATS[units]
  ELSE F32FromRatio(units, 20)

\* - a
F32Neg(a) == [a EXCEPT !.m = - @]

\* a - b in float32
F32Sub(a, b) == F32Add(a, F32Neg(b))

\* a <= b
F32Leq(a, b) == ~ F32Less(b, a)

\* a whole number below 2^24 as a float
F32Int(n) == F32RoundInteger(n, 0)

\* seven more binary places of a quotient: st.q is the quotient so far and
\* st.r < d what remains of the dividend
F32DivideStep(st, d) ==
  [q |-> st.q * TwoTo(7) + (st.r * TwoTo(7)) \div d, r |-> (st.r * TwoTo(7)) % d]

\* n / d to 28 binary places for 2^23 <= n, d < 2^24, with what remains
F32LongDivide(n, d) ==
  F32DivideStep(F32DivideStep(F32DivideStep(F32DivideStep(
    [q |-> n \div d, r |-> n % d], d), d), d), d)

\* sign * st.q * 2^e, rounded once: the remainder tells whether digits were cut
F32RoundQuotient(sign, st, e) == F32Round(sign, st.q, e, st.r # 0)

\* a / b in float32, for b other than 0
F32Div(a, b) ==
  IF a.m = 0 THEN F32Zero
  ELSE F32RoundQuotient(Sign(a.m) * Sign(b.m), F32LongDivide(Abs(a.m), Abs(b.m)),
                        a.e - b.e - 28)

\* a uniform kept in millionths (waterAlpha, the alpha of the comparison band) as the
\* float the shader reads
AlphaFloat(alpha) == F32Div(F32Int(alpha), F32Int(AlphaOne))

\* czm_getDefaultMaterial(materialInput) followed by material.alpha = 0.0
DefaultMaterial == [diffuse |-> DEFAULT_DIFFUSE, alpha |-> F32Zero]

\* GLSL clamp(x, minVal, maxVal) = min(max(x, minVal), maxVal)
clamp(x, minVal, maxVal) == F32Min(F32Max(x, minVal), maxVal)

\* t * t * (3.0 - 2.0 * t), every operation in float32
Hermite(t) == F32Mul(F32Mul(t, t), F32Sub(F32Int(3), F32Mul(F32Int(2), t)))

\* a smoothstep that does not clamp t to 1 from above
smoothstep_Unclamped(edge0, edge1, x) ==
  Hermite(F32Max(F32Div(F32Sub(x, edge0), F32Sub(edge1, edge0)), F32Zero))

\* GLSL smoothstep(edge0, edge1, x) = t*t*(3 - 2t), t = clamp((x - edge0)/(edge1 - edge0), 0, 1)
smoothstep(edge0, edge1, x) ==
  Hermite(clamp(F32Div(F32Sub(x, edge0), F32Sub(edge1, edge0)), F32Zero, F32Int(1)))

\* 1.0 - smoothstep(floodSurface - edgeSoftness, floodSurface + edgeSoftness, h)
softEdgeMask(floodSurface, h) ==
  F32Sub(F32Int(1), smoothstep(F32Sub(floodSurface, UniformFloat(EdgeSoftness)),
                               F32Add(floodSurface, UniformFloat(EdgeSoftness)), h))

\* geoidSample.r and geoidSample.g: the texel's bytes as the sampler normalises them
TexelChannel(byte) == F32FromRatio(byte, 255)

\* float encoded = geoidSample.r * (255.0 * 256.0 / 65535.0)
\*               + geoidSample.g * (255.0 / 65535.0);
\* float geoidUndulation = encoded * geoidRange + geoidMin;
\* the sample given by the texel's two bytes, the result a float32 of metres
geoidUndulation(geoidSample) ==
  LET encoded == F32Add(F32Mul(TexelChannel(geoidSample[1]),
                               F32FromRatio(255 * 256, GEOID_FULL_SCALE)),
                        F32Mul(TexelChannel(geoidSample[2]),
                               F32FromRatio(255, GEOID_FULL_SCALE)))
  IN F32Add(F32Mul(encoded, UniformFloat(GEOID_RANGE)), UniformFloat(GEOID_MIN))

\* the texels of the model's fragments
GeoidSamples == {<<141, 220>>, <<141, 237>>, <<141, 254>>}

\* geoidUndulation of the model's texels, computed once: -0.0497 m, 0.0004 m and
\* 0.0504 m
GEOID_UNDULATIONS == [geoidSample \in GeoidSamples |-> geoidUndulation(geoidSample)]

\* geoidUndulation of a fragment's texel
UndulationAt(geoidSample) ==
  IF geoidSample \in GeoidSamples THEN GEOID_UNDULATIONS[geoidSample]
  ELSE geoidUndulation(geoidSample)

(* Inputs of the shader runs *)

\* the flood surfaces the geoid shader computes for a positive uniform
GeoidSurfaces ==
  {F32Add(UndulationAt(gs), UniformFloat(l)) : gs \in GeoidSamples, l \in 1 .. MaxSLR}
\* the flood surfaces of either shader
FloodSurfaces == GeoidSurfaces \cup {UniformFloat(l) : l \in 1 .. MaxSLR}

\* heights on the 5 cm grid
GridHeights == {UniformFloat(k) : k \in (-MaxHeight) .. MaxHeight}
\* the geoid shader's surfaces and the floats next to each of them
SurfaceHeights == UNION {{F32Down(s), s, F32Up(s)} : s \in GeoidSurfaces}
\* floodMask passes 0.001 where smoothstep passes 0.999, at t = 0.98163, which is
\* 0.7 * t - 0.35 = 0.3371406 m above the flood surface
THRESHOLD_RISE == F32Div(F32Int(3371406), F32Int(10000000))
\* the four floats above a
FloatsAbove(a) ==
  {F32Up(a), F32Up(F32Up(a)), F32Up(F32Up(F32Up(a))), F32Up(F32Up(F32Up(F32Up(a))))}
\* the heights on either side of the place where floodMask passes 0.001, for each
\* flood surface
ThresholdHeights == UNION {FloatsAbove(F32Add(s, THRESHOLD_RISE)) : s \in FloodSurfaces}
\* two pairs of neighbouring floats inside the soft edge of the lowest surfaces: 0.33744 m
\* for texel <<141, 220>> with seaLevelRise 0.05, and 0.38714 m for floodLevel 0.05
RoundingHeights ==
  {[m |-> 11322677, e |-> -25], [m |-> 11322678, e |-> -25],
   [m |-> 12990261, e |-> -25], [m |-> 12990262, e |-> -25]}
Heights == GridHeights \cup SurfaceHeights \cup ThresholdHeights \cup RoundingHeights
\* water mask values in tenths: land, the threshold itself, just above it, open water
WaterMasks == {0, 5, 6, 10}
Fragments ==
  [waterMask : WaterMasks, height : Heights, geoidSample : GeoidSamples]

(* The shaders *)

\* the soft-edge mask of the model's surfaces and heights, computed once
FLOOD_MASKS == [s \in FloodSurfaces |-> [h \in Heights |-> softEdgeMask(s, h)]]

\* float floodMask = 0.0;
\* if (seaLevelRise > 0.0) {
\*   floodMask = 1.0 - smoothstep(floodSurface - edgeSoftness, floodSurface + edgeSoftness, h);
\* }
\* level is the uniform in height units, floodSurface and h are float32
floodMask(level, floodSurface, h) ==
  IF level > 0
  THEN IF floodSurface \in FloodSurfaces /\ h \in Heights
       THEN FLOOD_MASKS[floodSurface][h]
       ELSE softEdgeMask(floodSurface, h)
  ELSE F32Zero

\* the literal 0.001
FLOOD_MASK_EPS == F32FromRatio(1, FLOOD_MASK_EPS_DEN)

\* floodMask > 0.001
MaskVisible(mask) == F32Less(FLOOD_MASK_EPS, mask)

\* if (floodMask > 0.001) { diffuse = amber; alpha = waterAlpha * floodMask }
shadeFlood(mat, alpha, mask) ==
  IF MaskVisible(mask)
  THEN [diffuse |-> FLOOD_COLOR, alpha |-> F32Mul(AlphaFloat(alpha), mask)]
  ELSE mat

\* a band that is open below and closed above: h > lower && h <= upper
shadeComparison_UpperClosed(mat, floodSurface, compSurface, h) ==
  LET lower == F32Min(floodSurface, compSurface)
      upper == F32Max(floodSurface, compSurface)
  IN IF F32Less(lower, h) /\ ~ F32Less(upper, h)
     THEN [diffuse |-> COMPARISON_COLOR, alpha |-> AlphaFloat(COMPARISON_ALPHA)]
     ELSE mat

\* float lower = min(floodSurface, compSurface); float upper = max(...);
\* if (h >= lower && h < upper) { diffuse = red-orange; alpha = 0.5 }; all float32
shadeComparison(mat, floodSurface, compSurface, h) ==
  LET lower == F32Min(floodSurface, compSurface)
      upper == F32Max(floodSurface, compSurface)
  IN IF ~ F32Less(h, lower) /\ F32Less(h, upper)
     THEN [diffuse |-> COMPARISON_COLOR, alpha |-> AlphaFloat(COMPARISON_ALPHA)]
     ELSE mat

\* FLOOD_SHADER_GEOID after the ocean test: the shading of a land fragment
geoidLandShade(u, mi) ==
  LET h == mi.height
      undulation == UndulationAt(mi.geoidSample)
      floodSurface == F32Add(undulation, UniformFloat(u.seaLevelRise))
      m1 == shadeFlood(DefaultMaterial, u.waterAlpha,
                       floodMask(u.seaLevelRise, floodSurface, h))
  IN IF u.comparisonSLR > 0
     THEN shadeComparison(m1, floodSurface,
                          F32Add(undulation, UniformFloat(u.comparisonSLR)), h)
     ELSE m1

\* a geoid shader without the ocean test
FLOOD_SHADER_GEOID_NoOceanTest(u, mi) == geoidLandShade(u, mi)

\* FLOOD_SHADER_GEOID: czm_getMaterial with uniforms u
FLOOD_SHADER_GEOID(u, mi) ==
  IF mi.waterMask > WATER_MASK_HALF
  THEN DefaultMaterial
  ELSE geoidLandShade(u, mi)

\* FLOOD_SHADER_FALLBACK after the ocean test: the shading of a land fragment
fallbackLandShade(u, mi) ==
  LET h == mi.height
      m1 == shadeFlood(DefaultMaterial, u.waterAlpha,
                       floodMask(u.floodLevel, UniformFloat(u.floodLevel), h))
  IN IF u.comparisonLevel # 0
     THEN shadeComparison(m1, UniformFloat(u.floodLevel),
                          UniformFloat(u.comparisonLevel), h)
     ELSE m1

\* FLOOD_SHADER_FALLBACK: czm_getMaterial with uniforms u
FLOOD_SHADER_FALLBACK(u, mi) ==
  IF mi.waterMask > WATER_MASK_HALF
  THEN DefaultMaterial
  ELSE fallbackLandShade(u, mi)

\* the shader of material m run on one fragment
czm_getMaterial(m, mi) ==
  IF m.type = "FloodGeoid"
  THEN FLOOD_SHADER_GEOID(m.uniforms, mi)
  ELSE FLOOD_SHADER_FALLBACK(m.uniforms, mi)

\* the shader's local floodSurface for material m on fragment mi, float32
FloodSurfaceFloat(m, mi) ==
  IF m.type = "FloodGeoid"
  THEN F32Add(UndulationAt(mi.geoidSample), UniformFloat(m.uniforms.seaLevelRise))
  ELSE UniformFloat(m.uniforms.floodLevel)

\* the shader's local comparison surface, float32
CompSurfaceFloat(m, mi) ==
  IF m.type = "FloodGeoid"
  THEN F32Add(UndulationAt(mi.geoidSample), UniformFloat(m.uniforms.comparisonSLR))
  ELSE UniformFloat(m.uniforms.comparisonLevel)

\* the shader's local floodMask
FloodMaskOf(m, mi) ==
  floodMask(LevelUniform(m), FloodSurfaceFloat(m, mi), mi.height)

\* the shader's test that switches the comparison overlay on
OverlayOn(m) ==
  IF m.type = "FloodGeoid" THEN m.uniforms.comparisonSLR > 0
                           ELSE m.uniforms.comparisonLevel # 0

---------------------------------------------------------------------------
(* Operations of floodVisualization.js, as functions of the module state *)

\* a step that overshoots the target: diff * 1.08
AlphaStep_Overshoot(diff) ==
  IF diff >= 0 THEN (diff * (ALPHA_RATE_DEN + ALPHA_RATE_NUM)) \div ALPHA_RATE_DEN
               ELSE -(((-diff) * (ALPHA_RATE_DEN + ALPHA_RATE_NUM)) \div ALPHA_RATE_DEN)

\* diff * 0.08 in fixed point, truncated toward zero
AlphaStep(diff) ==
  IF diff >= 0 THEN (diff * ALPHA_RATE_NUM) \div ALPHA_RATE_DEN
               ELSE -(((-diff) * ALPHA_RATE_NUM) \div ALPHA_RATE_DEN)

\* function animate() inside startAlphaAnimation: one animation frame
animate(s) ==
  LET diff == s.targetAlpha - s.waterAlpha
      s1 ==
        IF s.alphaAnimating /\ s.floodMaterial # NoMaterial
        THEN IF Abs(diff) > ALPHA_SNAP
             THEN LET a == s.waterAlpha + AlphaStep(diff)
                  IN [s EXCEPT !.waterAlpha = a,
                               !.floodMaterial = SetUniform(@, "waterAlpha", a)]
             ELSE [s EXCEPT !.waterAlpha = s.targetAlpha,
                            !.floodMaterial = SetUniform(@, "waterAlpha", s.targetAlpha),
                            !.alphaAnimating = FALSE,
                            !.globeMaterial =
                               IF s.targetAlpha = 0 THEN "undefined" ELSE @]
        ELSE s
  IN [s1 EXCEPT !.animationFrame = 1]

\* an initialisation that builds the geoid material whatever the canvas is
initFloodVisualization_AlwaysGeoid(s, geoidCanvas) ==
  animate([s EXCEPT !.useGeoidTexture = TRUE, !.floodMaterial = GeoidMaterial])

\* initFloodVisualization(viewer, geoidCanvas); startAlphaAnimation runs animate() once
initFloodVisualization(s, geoidCanvas) ==
  LET useGeoid == geoidCanvas # "null"
  IN animate([s EXCEPT !.useGeoidTexture = useGeoid,
                       !.floodMaterial =
                          IF useGeoid THEN GeoidMaterial ELSE FallbackMaterial])

\* floodMaterial.uniforms.comparisonSLR = 0.0 (comparisonLevel in fallback mode)
ResetComparison(s) ==
  IF s.useGeoidTexture
  THEN SetUniform(s.floodMaterial, "comparisonSLR", 0)
  ELSE SetUniform(s.floodMaterial, "comparisonLevel", 0)

\* clearFlood that forgets to reset the comparison uniform
clearFlood_KeepsComparison(s) ==
  [s EXCEPT !.previousSnapshot = s.currentSnapshot,
            !.currentSnapshot = NoSnapshot,
            !.floodMaterial = IF @ # NoMaterial THEN SetUniform(@, "waterAlpha", 0) ELSE @,
            !.waterAlpha = 0,
            !.targetAlpha = 0,
            !.alphaAnimating = FALSE,
            !.globeMaterial = "undefined"]

\* clearFlood that leaves the material on the globe
clearFlood_StaysAttached(s) ==
  [s EXCEPT !.previousSnapshot = s.currentSnapshot,
            !.currentSnapshot = NoSnapshot,
            !.floodMaterial =
               IF @ # NoMaterial
               THEN ResetComparison([s EXCEPT !.floodMaterial =
                                       SetUniform(@, "waterAlpha", 0)])
               ELSE @,
            !.waterAlpha = 0,
            !.targetAlpha = 0,
            !.alphaAnimating = FALSE]

\* clearFlood(viewer), current source: detaches immediately
clearFlood(s) ==
  LET s1 == [s EXCEPT !.previousSnapshot = s.currentSnapshot,
                      !.currentSnapshot = NoSnapshot]
      s2 == IF s1.floodMaterial # NoMaterial
            THEN [s1 EXCEPT !.floodMaterial =
                    ResetComparison([s1 EXCEPT !.floodMaterial =
                                       SetUniform(@, "waterAlpha", 0)])]
            ELSE s1
  IN [s2 EXCEPT !.waterAlpha = 0,
                !.targetAlpha = 0,
                !.alphaAnimating = FALSE,
                !.globeMaterial = "undefined"]

\* clearFlood(viewer), fading variant: the animate callback detaches after the fade
clearFloodFading(s) ==
  LET s1 == [s EXCEPT !.previousSnapshot = s.currentSnapshot,
                      !.currentSnapshot = NoSnapshot,
                      !.targetAlpha = 0,
                      !.alphaAnimating = TRUE]
  IN IF s1.floodMaterial # NoMaterial
     THEN [s1 EXCEPT !.floodMaterial = ResetComparison(s1)]
     ELSE s1

\* the clearFlood that the build links
ClearFlood(s) ==
  IF fadePolicy = "fading" THEN clearFloodFading(s) ELSE clearFlood(s)

\* a history that keeps the oldest snapshot instead of overwriting it
recordSnapshotBlock_KeepsOldest(s, seaLevelRise, simulationResult, now) ==
  [s EXCEPT !.previousSnapshot =
               IF s.currentSnapshot # NoSnapshot /\ @ = NoSnapshot
               THEN s.currentSnapshot ELSE @,
            !.currentSnapshot =
               [seaLevelRise     |-> seaLevelRise,
                simulationResult |-> simulationResult,
                timestamp        |-> now]]

\* setFloodLevel, if (recordSnapshot) {...}: demote current, record the new snapshot;
\* now = Date.now()
recordSnapshotBlock(s, seaLevelRise, simulationResult, now) ==
  [s EXCEPT !.previousSnapshot =
               IF s.currentSnapshot # NoSnapshot THEN s.currentSnapshot ELSE @,
            !.currentSnapshot =
               [seaLevelRise     |-> seaLevelRise,
                simulationResult |-> simulationResult,
                timestamp        |-> now]]

\* a setFloodLevel that does not restart the fade from 0
applyFloodLevel_KeepsAlpha(s, seaLevelRise) ==
  LET m1 == IF s.useGeoidTexture
            THEN SetUniform(SetUniform(s.floodMaterial, "seaLevelRise", seaLevelRise),
                            "comparisonSLR", 0)
            ELSE SetUniform(SetUniform(s.floodMaterial, "floodLevel", seaLevelRise),
                            "comparisonLevel", 0)
  IN [s EXCEPT !.floodMaterial = m1,
               !.globeMaterial = "floodMaterial",
               !.targetAlpha = FLOOD_TARGET_ALPHA,
               !.alphaAnimating = TRUE]

\* setFloodLevel, the part after the seaLevelRise <= 0 return: uniforms, attach, fade-in
applyFloodLevel(s, seaLevelRise) ==
  LET m1 == IF s.useGeoidTexture
            THEN SetUniform(SetUniform(s.floodMaterial, "seaLevelRise", seaLevelRise),
                            "comparisonSLR", 0)
            ELSE SetUniform(SetUniform(s.floodMaterial, "floodLevel", seaLevelRise),
                            "comparisonLevel", 0)
  IN [s EXCEPT !.floodMaterial = SetUniform(m1, "waterAlpha", 0),
               !.globeMaterial = "floodMaterial",
               !.waterAlpha = 0,
               !.targetAlpha = FLOOD_TARGET_ALPHA,
               !.alphaAnimating = TRUE]

\* setFloodLevel(viewer, seaLevelRise, simulationResult, recordSnapshot)
setFloodLevel(s, seaLevelRise, simulationResult, recordSnapshot, now) ==
  LET s1 == IF recordSnapshot
            THEN recordSnapshotBlock(s, seaLevelRise, simulationResult, now)
            ELSE s
  IN IF seaLevelRise <= 0 THEN ClearFlood(s1) ELSE applyFloodLevel(s1, seaLevelRise)

\* the value showComparison(viewer) returns
showComparisonReturn(s) ==
  ~ (s.previousSnapshot = NoSnapshot \/ s.currentSnapshot = NoSnapshot
       \/ s.floodMaterial = NoMaterial)

\* showComparison(viewer): the state it leaves
showComparison(s) ==
  IF ~ showComparisonReturn(s)
  THEN s
  ELSE IF s.useGeoidTexture
       THEN [s EXCEPT !.floodMaterial =
               SetUniform(@, "comparisonSLR", s.previousSnapshot.seaLevelRise)]
       ELSE [s EXCEPT !.floodMaterial =
               SetUniform(@, "comparisonLevel", s.previousSnapshot.seaLevelRise)]

\* a hideComparison that also ends the fade where it is
hideComparison_StopsFade(s) ==
  IF s.floodMaterial # NoMaterial
  THEN [s EXCEPT !.floodMaterial = ResetComparison(s), !.alphaAnimating = FALSE]
  ELSE s

\* hideComparison(viewer)
hideComparison(s) ==
  IF s.floodMaterial # NoMaterial
  THEN [s EXCEPT !.floodMaterial = ResetComparison(s)]
  ELSE s

\* a clean-up that detaches the material and leaves the frame request alone
pendingAfterDestroy_NoCancel(s, pending) == pending

\* destroyFloodVisualization(viewer): the animate callbacks still pending after
\* if (animationFrame) cancelAnimationFrame(animationFrame); the handle names the
\* request made last, and a handle that is no longer pending cancels nothing
pendingAfterDestroy(s, pending) ==
  IF s.animationFrame # 0 /\ pending > 0 THEN pending - 1 ELSE pending

\* destroyFloodVisualization(viewer): the module state it leaves
destroyFloodVisualization(s) == [s EXCEPT !.globeMaterial = "undefined"]

---------------------------------------------------------------------------
(* simulation.js: the Monte Carlo engine and its statistics                *)
(*                                                                         *)
(* Number representation                                                   *)
(*   tempIncrease     : hundredths of a degree C (TEMP_STEP = 0.05 is 5)   *)
(*   sea level values : units of 0.01 mm (1 m = 100000); a value v stands  *)
(*                      for the float64 nearest to v / 100000              *)
(*   Math.pow, Math.sqrt : millionths                                      *)
(*   Box-Muller radius and cosine : thousandths                            *)
(*   mean = sum / n   : the float64 quotient of the float64 sum (value),   *)
(*                      with the exact sum and n it rounds (num, den)      *)
(*   Math.random()    : a point of RandomGrid, drawn anew by every call;   *)
(*                      no generator state                                 *)
(*   Infinity         : a value above every finite sample and sum          *)

\* a wide natural is <<a3, a2, a1, a0>>, standing for
\* a3 * 2^72 + a2 * 2^48 + a1 * 2^24 + a0 with limbs below 2^24
Limb == TwoTo(24)
WideZero == <<0, 0, 0, 0>>
WideOne == <<0, 0, 0, 1>>
WideLimb(a, i) == IF i \in 1 .. 4 THEN a[i] ELSE 0

WideCarry(a) ==
  LET t1 == a[3] + a[4] \div Limb
      t2 == a[2] + t1 \div Limb
      t3 == a[1] + t2 \div Limb
  IN <<t3, t2 % Limb, t1 % Limb, a[4] % Limb>>

WideAdd(a, b) == WideCarry(<<a[1] + b[1], a[2] + b[2], a[3] + b[3], a[4] + b[4]>>)

\* a - b for a >= b
WideSub(a, b) ==
  LET d0 == a[4] - b[4]
      c0 == IF d0 < 0 THEN 1 ELSE 0
      d1 == a[3] - b[3] - c0
      c1 == IF d1 < 0 THEN 1 ELSE 0
      d2 == a[2] - b[2] - c1
      c2 == IF d2 < 0 THEN 1 ELSE 0
  IN <<a[1] - b[1] - c2, d2 + c2 * Limb, d1 + c1 * Limb, d0 + c0 * Limb>>

WideLess(a, b) ==
  \/ a[1] < b[1]
  \/ a[1] = b[1] /\ a[2] < b[2]
  \/ a[1] = b[1] /\ a[2] = b[2] /\ a[3] < b[3]
  \/ a[1] = b[1] /\ a[2] = b[2] /\ a[3] = b[3] /\ a[4] < b[4]

\* a * k for 0 <= k < 128
WideTimes(a, k) == WideCarry(<<a[1] * k, a[2] * k, a[3] * k, a[4] * k>>)

\* quotient and remainder of a by d, 0 < d < 128
WideDivide(a, d) ==
  LET t2 == (a[1] % d) * Limb + a[2]
      t1 == (t2 % d) * Limb + a[3]
      t0 == (t1 % d) * Limb + a[4]
  IN [q |-> <<a[1] \div d, t2 \div d, t1 \div d, t0 \div d>>, r |-> t0 % d]

\* a * 2^(24 w + b) below 2^96, 0 <= b < 24
WideShlBy(a, w, b) ==
  [i \in 1 .. 4 |-> (WideLimb(a, i + w) % TwoTo(24 - b)) * TwoTo(b)
                    + WideLimb(a, i + w + 1) \div TwoTo(24 - b)]

\* a * 2^k below 2^96, 0 <= k < 96
WideShl(a, k) == WideShlBy(a, k \div 24, k % 24)

\* a \div 2^(24 w + b), 0 <= b < 24
WideShrBy(a, w, b) ==
  [i \in 1 .. 4 |-> WideLimb(a, i - w) \div TwoTo(b)
                    + (WideLimb(a, i - w - 1) % TwoTo(b)) * TwoTo(24 - b)]

\* a \div 2^k, 0 <= k
WideShr(a, k) == IF k >= 96 THEN WideZero ELSE WideShrBy(a, k \div 24, k % 24)

WideBitLen(a) ==
  IF a[1] > 0 THEN 72 + BitLen(a[1])
  ELSE IF a[2] > 0 THEN 48 + BitLen(a[2])
  ELSE IF a[3] > 0 THEN 24 + BitLen(a[3])
  ELSE BitLen(a[4])

\* a float64 is [s, w, e] = s * w * 2^e with sign s and a wide mantissa
\* 2^52 <= w < 2^53, or F64Zero, or F64Infinity. Exponents are not limited: no value
\* here is near the overflow or the subnormal range.
F64Zero == [s |-> 1, w |-> WideZero, e |-> 0]
F64Infinity == [s |-> 1, inf |-> TRUE]
F64IsInfinite(a) == "inf" \in DOMAIN a

\* - a; the sign of zero is not kept
F64Negate(a) == IF a.w = WideZero THEN a ELSE [a EXCEPT !.s = - a.s]

\* s * q * 2^e for 2^52 <= q <= 2^53
F64Renormal(s, q, e) ==
  IF q[2] >= 32 THEN [s |-> s, w |-> WideShr(q, 1), e |-> e + 1]
  ELSE [s |-> s, w |-> q, e |-> e]

\* t holds the 54 leading digits of n, whose other k - 1 digits are cut off: t
\* without its last digit, plus one if that digit and what follows it are more than
\* half, or are half and the digit before is odd
F64RoundHalf(s, n, e, sticky, k, t) ==
  F64Renormal(s,
    IF t[4] % 2 = 1 /\ (sticky \/ (t[4] \div 2) % 2 = 1 \/ WideShl(t, k - 1) # n)
    THEN WideAdd(WideShr(t, 1), WideOne)
    ELSE WideShr(t, 1),
    e + k)

\* n has k digits more than 53
F64RoundTo(s, n, e, sticky, k) ==
  IF k <= 0 THEN [s |-> s, w |-> WideShl(n, - k), e |-> e + k]
  ELSE F64RoundHalf(s, n, e, sticky, k, WideShr(n, k - 1))

\* round to nearest, ties to even: the float64 nearest to s * (n + f) * 2^e for a
\* wide n and a fraction f in [0, 1) that is nonzero iff sticky (a sticky n has
\* at least 55 digits)
F64Round(s, n, e, sticky) ==
  IF n = WideZero THEN F64Zero ELSE F64RoundTo(s, n, e, sticky, WideBitLen(n) - 53)

\* s * (num / den) * 2^(e + 48) for 2^30 <= num < 2^31 and 2^16 <= den < 2^17: the
\* quotient is divided out in four digits of 12 bits
F64Quotient(s, num, den, e) ==
  LET t1 == (num % den) * 4096
      t2 == (t1 % den) * 4096
      t3 == (t2 % den) * 4096
      t4 == (t3 % den) * 4096
  IN F64Round(s, <<0, num \div den, (t1 \div den) * 4096 + t2 \div den,
                   (t3 \div den) * 4096 + t4 \div den>>,
              e, t4 % den # 0)

\* the float64 nearest to n / d for integers |n| < 2^31 and 0 < d < 2^17
F64FromRatio(n, d) ==
  IF n = 0 THEN F64Zero
  ELSE F64Quotient(Sign(n), Abs(n) * TwoTo(31 - BitLen(Abs(n))),
                   d * TwoTo(17 - BitLen(d)), BitLen(Abs(n)) - BitLen(d) - 62)

\* x * 2^e with sign sa plus y * 2^e with sign sb, y having lost digits iff sticky
F64AddAligned(sa, sb, x, y, e, sticky) ==
  IF sa = sb THEN F64Round(sa, WideAdd(x, y), e, sticky)
  ELSE IF WideLess(x, y) THEN F64Round(sb, WideSub(y, x), e, FALSE)
  ELSE F64Round(sa, IF sticky THEN WideSub(WideSub(x, y), WideOne) ELSE WideSub(x, y),
                e, sticky)

\* a + b where a keeps g more digits and b is cut k digits short
F64AddCut(a, b, g, k) ==
  F64AddAligned(a.s, b.s, WideShl(a.w, g), WideShr(b.w, k), a.e - g,
                k > 0 /\ (k >= 96 \/ WideShl(WideShr(b.w, k), k) # b.w))

\* a + b for finite a, b with a.e >= b.e, neither zero: a keeps up to 40 more
\* digits and b is cut to a's last digit
F64AddOrdered(a, b) ==
  IF a.e - b.e < 40 THEN F64AddCut(a, b, a.e - b.e, 0)
  ELSE F64AddCut(a, b, 40, a.e - b.e - 40)

\* a + b; Infinity is added to non-negative values only
F64Add(a, b) ==
  IF F64IsInfinite(a) \/ F64IsInfinite(b) THEN F64Infinity
  ELSE IF a.w = WideZero THEN b
  ELSE IF b.w = WideZero THEN a
  ELSE IF a.e >= b.e THEN F64AddOrdered(a, b)
  ELSE F64AddOrdered(b, a)

F64Sub(a, b) == F64Add(a, F64Negate(b))

\* a * k for an integer 0 < k < 128
F64Times(a, k) ==
  IF F64IsInfinite(a) THEN a ELSE F64Round(a.s, WideTimes(a.w, k), a.e, FALSE)

\* s * (q + f) * 2^e for the quotient q and the remainder r of a division
F64RoundQuotient(s, qr, e) == F64Round(s, qr.q, e, qr.r # 0)

\* a / d for an integer 0 < d < 128
F64Over(a, d) ==
  IF F64IsInfinite(a) THEN a
  ELSE F64RoundQuotient(a.s, WideDivide(WideShl(a.w, 40), d), a.e - 40)

\* a * 2^k
F64Scale(a, k) ==
  IF F64IsInfinite(a) \/ a.w = WideZero THEN a ELSE [a EXCEPT !.e = a.e + k]

F64Less(a, b) ==
  IF F64IsInfinite(a) THEN FALSE
  ELSE IF F64IsInfinite(b) THEN TRUE
  ELSE IF a.w = WideZero THEN b.w # WideZero /\ b.s = 1
  ELSE IF b.w = WideZero THEN a.s = -1
  ELSE IF a.s # b.s THEN a.s < b.s
  ELSE IF a.s = 1 THEN a.e < b.e \/ (a.e = b.e /\ WideLess(a.w, b.w))
  ELSE b.e < a.e \/ (a.e = b.e /\ WideLess(b.w, a.w))

F64Leq(a, b) == ~ F64Less(b, a)

\* one binary digit of a long division by den: st.rem < 2 den is what is left and
\* st.q the digits so far
WideDivideStep(st, den) ==
  IF WideLess(st.rem, den)
  THEN [rem |-> WideShl(st.rem, 1), q |-> WideShl(st.q, 1)]
  ELSE [rem |-> WideShl(WideSub(st.rem, den), 1),
        q   |-> WideAdd(WideShl(st.q, 1), WideOne)]

\* 2, 4, 8, 16 and 32 digits, the first half worked out before the second
WideDivide2(st, den) ==
  CHOOSE r \in {WideDivideStep(half, den) : half \in {WideDivideStep(st, den)}} : TRUE
WideDivide4(st, den) ==
  CHOOSE r \in {WideDivide2(half, den) : half \in {WideDivide2(st, den)}} : TRUE
WideDivide8(st, den) ==
  CHOOSE r \in {WideDivide4(half, den) : half \in {WideDivide4(st, den)}} : TRUE
WideDivide16(st, den) ==
  CHOOSE r \in {WideDivide8(half, den) : half \in {WideDivide8(st, den)}} : TRUE
WideDivide32(st, den) ==
  CHOOSE r \in {WideDivide16(half, den) : half \in {WideDivide16(st, den)}} : TRUE
WideDivide56(st, den) ==
  CHOOSE r \in {WideDivide8(rest, den) :
                  rest \in {WideDivide16(half, den) :
                              half \in {WideDivide32(st, den)}}} : TRUE

\* the quotient st.q of st.rem * 2^56 by den, and whether anything is left
WideQuotient(st) == [q |-> st.q, r |-> IF st.rem = WideZero THEN 0 ELSE 1]

\* the quotient of num * 2^55 by den in 56 binary digits (num < 2 den)
WideLongDivide(num, den) ==
  WideQuotient(WideDivide56([rem |-> num, q |-> WideZero], den))

\* a / b for finite a and b, b not zero
F64Div(a, b) ==
  IF a.w = WideZero THEN F64Zero
  ELSE F64RoundQuotient(a.s * b.s, WideLongDivide(a.w, b.w), a.e - b.e - 55)

\* the integer part of w * 2^(- k) as a number, for a value below 2^31
WideInteger(w, k) == IF k >= 53 THEN 0 ELSE WideShr(w, k)[3] * Limb + WideShr(w, k)[4]

\* Math.floor(a) of a magnitude n + f: f is nonzero iff inexact
F64FloorOf(s, n, inexact) == IF s = 1 THEN n ELSE IF inexact THEN - n - 1 ELSE - n

\* Math.floor(a) as an integer, for a finite a with |a| < 2^31
F64Floor(a) ==
  IF a.w = WideZero THEN 0
  ELSE IF a.e >= 0 THEN a.s * WideShl(a.w, a.e)[3] * Limb + a.s * WideShl(a.w, a.e)[4]
  ELSE F64FloorOf(a.s, WideInteger(a.w, - a.e),
                  - a.e >= 53 \/ WideShl(WideShr(a.w, - a.e), - a.e) # a.w)

\* Math.ceil(a) as an integer
F64Ceil(a) == - F64Floor(F64Negate(a))

\* JavaScript values of the statistics record
Undefined == [js |-> "undefined"]
NaN == [js |-> "NaN"]
Num(v) == [js |-> "number", v |-> v]

\* sum / n in floating point, float being the float64 sum: 0 / 0 is NaN
Quotient(sum, n, float) ==
  IF n = 0 THEN NaN
  ELSE [js |-> "quotient", num |-> sum, den |-> n, value |-> F64Over(float, n)]

\* sorted[index] with a 0-based index: undefined outside the array
ArrayAt(array, index) ==
  IF index >= 0 /\ index < Len(array) THEN Num(array[index + 1]) ELSE Undefined

\* Object.keys(CONTRIBUTORS), in insertion order
CONTRIBUTOR_KEYS ==
  <<"thermalExpansion", "glaciers", "greenland", "antarctic", "landWater">>

ContributorKeySet == {CONTRIBUTOR_KEYS[k] : k \in 1 .. Len(CONTRIBUTOR_KEYS)}

\* const CONTRIBUTORS: meanPerDeg and stdPerDeg in cm, nonLinearExponent in tenths
CONTRIBUTORS ==
  [thermalExpansion |-> [name |-> "Thermal Expansion",
                         meanPerDeg |-> 12, stdPerDeg |-> 4, nonLinearExponent |-> 10],
   glaciers         |-> [name |-> "Mountain Glaciers",
                         meanPerDeg |-> 10, stdPerDeg |-> 3, nonLinearExponent |-> 9],
   greenland        |-> [name |-> "Greenland Ice Sheet",
                         meanPerDeg |-> 6, stdPerDeg |-> 4, nonLinearExponent |-> 14],
   antarctic        |-> [name |-> "Antarctic Ice Sheet",
                         meanPerDeg |-> 5, stdPerDeg |-> 8, nonLinearExponent |-> 18],
   landWater        |-> [name |-> "Land Water Storage",
                         meanPerDeg |-> 1, stdPerDeg |-> 1, nonLinearExponent |-> 10]]

\* the temperatures for which Math.pow and Math.sqrt are tabulated: 0.05 and 0.1
\* degrees C, one and two steps of the temperature control
PositiveTemps == {5, 10}

\* Math.pow(tempIncrease, exponent) in millionths: 0.05^0.9 = 0.067464,
\* 0.05^1.4 = 0.015085, 0.05^1.8 = 0.004551, 0.1^0.9 = 0.125893, 0.1^1.4 = 0.039811,
\* 0.1^1.8 = 0.015849
MathPow(base, exponentTenths) ==
  IF base = 5
  THEN CASE exponentTenths = 10 -> 50000
         [] exponentTenths = 9  -> 67464
         [] exponentTenths = 14 -> 15085
         [] exponentTenths = 18 -> 4551
  ELSE CASE exponentTenths = 10 -> 100000
         [] exponentTenths = 9  -> 125893
         [] exponentTenths = 14 -> 39811
         [] exponentTenths = 18 -> 15849

\* Math.sqrt(tempIncrease) in millionths
MathSqrt(x) == IF x = 5 THEN 223607 ELSE 316228

\* centimetres times a factor in millionths, in sea level units, rounded to nearest
ScaleCm(cm, millionths) == (cm * millionths + 500) \div 1000

\* a * b / 1000, rounded toward zero
MulMilli(a, b) ==
  IF a * b >= 0 THEN (a * b) \div 1000 ELSE -(((-a) * b) \div 1000)

\* Number.POSITIVE_INFINITY
Infinity == 2000000000

\* a + b in floating point; the code adds clamped values only, so the sum of two
\* infinities of opposite sign (NaN) does not arise
JsAdd(a, b) ==
  IF a = Infinity \/ b = Infinity THEN Infinity
  ELSE IF a = -Infinity \/ b = -Infinity THEN -Infinity
  ELSE a + b

\* the arguments the two Box-Muller tables are drawn up for, by index: 0 is 0;
\* 1 .. 14 are 2^-k for k = 52, 46, 40, 35, 30, 26, 22, 19, 16, 14, 12, 10, 9, 8
\* (2^-52 is the smallest positive value of Math.random()); 15 .. 78 are 1/128,
\* 3/128, ... 127/128; 79 is 1 - 2^-52 (the largest value)
\*
\* the values Math.random() returns in the model, by index: 0 and 65/128. As u1
\* they give the radius Infinity and 1.164, as u2 the cosine 1 and -0.999
RandomGrid == {0, 47}

\* Math.sqrt(-2 * Math.log(u1)) in thousandths, by index; Math.log(0) is
\* -Infinity
BOX_MULLER_RADIUS ==
  <<Infinity, 8490, 7986, 7447, 6966, 6449, 6004, 5523, 5132, 4710,
    4405, 4079, 3723, 3532, 3330, 3115, 2740, 2547, 2411, 2304,
    2215, 2139, 2071, 2009, 1953, 1901, 1853, 1807, 1764, 1723,
    1684, 1647, 1610, 1576, 1542, 1509, 1477, 1446, 1416, 1386,
    1357, 1328, 1300, 1272, 1245, 1218, 1191, 1164, 1138, 1112,
    1086, 1060, 1034, 1008, 982, 957, 931, 905, 879, 853,
    826, 799, 772, 745, 717, 688, 659, 629, 599, 567,
    534, 499, 463, 424, 382, 335, 282, 218, 125, 0>>

\* Math.cos(2 * Math.PI * u2) in thousandths, by index
BOX_MULLER_COSINE ==
  <<1000, 1000, 1000, 1000, 1000, 1000, 1000, 1000, 1000, 1000,
    1000, 1000, 1000, 1000, 1000, 999, 989, 970, 942, 904,
    858, 803, 741, 672, 596, 514, 428, 337, 243, 147,
    49, -49, -147, -243, -337, -428, -514, -596, -672, -741,
    -803, -858, -904, -942, -970, -989, -999, -999, -989, -970,
    -942, -904, -858, -803, -741, -672, -596, -514, -428, -337,
    -243, -147, -49, 49, 147, 243, 337, 428, 514, 596,
    672, 741, 803, 858, 904, 942, 970, 989, 999, 1000>>

\* Math.random(): draws holds what the engine returns to the calls of one
\* singleIteration pass, calls is the number of calls the pass has made
MathRandom(draws, calls) == draws[calls + 1]

\* sampleNormal(mean, stdDev) given the two values Math.random() returned;
\* stdDev > 0, and Infinity times the cosine has the cosine's sign
sampleNormal(mean, stdDev, u1, u2) ==
  LET radius == BOX_MULLER_RADIUS[u1 + 1]
      cosine == BOX_MULLER_COSINE[u2 + 1]
  IN IF radius = Infinity
     THEN (IF cosine > 0 THEN Infinity ELSE -Infinity)
     ELSE mean + MulMilli(MulMilli(radius, cosine), stdDev)

\* a clamp that lets negative values through
clampPositive_Identity(val) == val

\* clampPositive(val) = Math.max(0, val)
clampPositive(val) == Max(0, val)

\* a pass that adds the unclamped sample to the total
sampleContributor_TotalUnclamped(acc, key, tempIncrease, draws) ==
  LET contributor == CONTRIBUTORS[key]
      scaledTemp == MathPow(tempIncrease, contributor.nonLinearExponent)
      mean == ScaleCm(contributor.meanPerDeg, scaledTemp)
      std == ScaleCm(contributor.stdPerDeg, MathSqrt(tempIncrease))
      u1 == MathRandom(draws, acc.draws)
      u2 == MathRandom(draws, acc.draws + 1)
      sample == sampleNormal(mean, std, u1, u2)
  IN [total     |-> JsAdd(acc.total, sample),
      breakdown |-> [acc.breakdown EXCEPT ![key] = clampPositive(sample)],
      draws     |-> acc.draws + 2]

\* one pass of the for loop of singleIteration; acc carries total, breakdown and
\* the number of Math.random() calls made
sampleContributor(acc, key, tempIncrease, draws) ==
  LET contributor == CONTRIBUTORS[key]
      scaledTemp == MathPow(tempIncrease, contributor.nonLinearExponent)
      mean == ScaleCm(contributor.meanPerDeg, scaledTemp)
      std == ScaleCm(contributor.stdPerDeg, MathSqrt(tempIncrease))
      u1 == MathRandom(draws, acc.draws)
      u2 == MathRandom(draws, acc.draws + 1)
      value == clampPositive(sampleNormal(mean, std, u1, u2))
  IN [total     |-> JsAdd(acc.total, value),
      breakdown |-> [acc.breakdown EXCEPT ![key] = value],
      draws     |-> acc.draws + 2]

RECURSIVE sampleContributorsFrom(_, _, _, _)
sampleContributorsFrom(k, acc, tempIncrease, draws) ==
  IF k > Len(CONTRIBUTOR_KEYS) THEN acc
  ELSE sampleContributorsFrom(k + 1,
         sampleContributor(acc, CONTRIBUTOR_KEYS[k], tempIncrease, draws),
         tempIncrease, draws)

\* singleIteration(tempIncrease), draws being what Math.random() returns to its
\* ten calls
singleIteration(tempIncrease, draws) ==
  sampleContributorsFrom(1,
    [total |-> 0, breakdown |-> [key \in ContributorKeySet |-> 0], draws |-> 0],
    tempIncrease, draws)

RECURSIVE SumSeq(_)
\* sorted.reduce((a, b) => a + b, 0)
SumSeq(array) ==
  IF array = <<>> THEN 0 ELSE JsAdd(array[1], SumSeq(Tail(array)))

\* the float64 a sea level value stands for
Float64(v) == IF v = Infinity THEN F64Infinity ELSE F64FromRatio(v, 100000)

RECURSIVE SumFloat(_, _, _)
\* sorted.reduce((a, b) => a + b, 0) in float64: acc is the sum of the elements
\* before the k-th
SumFloat(array, k, acc) ==
  IF k > Len(array) THEN acc
  ELSE SumFloat(array, k + 1, F64Add(acc, Float64(array[k])))

RECURSIVE InsertSorted(_, _)
InsertSorted(x, array) ==
  IF array = <<>> THEN <<x>>
  ELSE IF x <= array[1] THEN <<x>> \o array
       ELSE <<array[1]>> \o InsertSorted(x, Tail(array))

\* a sort that leaves the array as it is
SortAscending_Unsorted(array) == array

RECURSIVE SortAscending(_)
\* array.sort((a, b) => a - b)
SortAscending(array) ==
  IF array = <<>> THEN <<>>
  ELSE InsertSorted(array[1], SortAscending(Tail(array)))

\* Math.floor(n * 0.5) and Math.floor(n * 0.05)
MedianIndex(n) == (n * 5) \div 10
P5Index(n) == (n * 5) \div 100

\* a p95 rank rounded up instead of down
P95Index_Ceil(n) == (n * 95 + 99) \div 100

\* Math.floor(n * 0.95)
P95Index(n) == (n * 95) \div 100

\* computeStats(sorted)
computeStats(array) ==
  LET n == Len(array)
      sum == SumSeq(array)
  IN [mean   |-> Quotient(sum, n, SumFloat(array, 1, F64Zero)),
      median |-> ArrayAt(array, MedianIndex(n)),
      p5     |-> ArrayAt(array, P5Index(n)),
      p95    |-> ArrayAt(array, P95Index(n)),
      min    |-> ArrayAt(array, 0),
      max    |-> ArrayAt(array, n - 1)]

\* { name: CONTRIBUTORS[key].name, ...computeStats(sorted) }
contributorSummary(key, array) ==
  LET cs == computeStats(array)
  IN [name |-> CONTRIBUTORS[key].name,
      mean |-> cs.mean, median |-> cs.median, p5 |-> cs.p5, p95 |-> cs.p95,
      min |-> cs.min, max |-> cs.max]

\* the object literal {}
EmptyObject == [key \in {} |-> Undefined]

\* the result runSimulation returns for tempIncrease <= 0
zeroResult ==
  [tempIncrease |-> 0,
   iterations |-> 0,
   results |-> <<>>,
   stats |-> [mean |-> Num(0), median |-> Num(0), p5 |-> Num(0), p95 |-> Num(0),
              min |-> Num(0), max |-> Num(0)],
   contributorStats |-> EmptyObject]

NoResult == [none |-> TRUE]
NoRun == [none |-> TRUE]

\* no invocation of runSimulation in progress
IdleSim ==
  [pc |-> "idle", tempIncrease |-> 0, iterations |-> 0, seed |-> "none", i |-> 0,
   results |-> <<>>, contributorTotals |-> [key \in ContributorKeySet |-> <<>>],
   draws |-> 0, ret |-> NoResult]

\* runSimulation up to the for loop: the early return, or the empty arrays
runSimulationEnter(tempIncrease, iterations, seed) ==
  IF tempIncrease <= 0
  THEN [IdleSim EXCEPT !.pc = "done", !.tempIncrease = tempIncrease,
                       !.iterations = iterations, !.seed = seed, !.ret = zeroResult]
  ELSE [IdleSim EXCEPT !.pc = "loop", !.tempIncrease = tempIncrease,
                       !.iterations = iterations, !.seed = seed]

\* one pass of the for loop of runSimulation, given what singleIteration returned
runSimulationPush(s, iteration) ==
  [s EXCEPT !.i = s.i + 1,
            !.results = Append(s.results, iteration.total),
            !.contributorTotals =
               [key \in ContributorKeySet |->
                  Append(s.contributorTotals[key], iteration.breakdown[key])],
            !.draws = s.draws + iteration.draws]

\* runSimulation after the loop: sort, computeStats, contributorStats, return
runSimulationReturn(s) ==
  LET results == SortAscending(s.results)
  IN [s EXCEPT !.pc = "done",
               !.results = results,
               !.ret = [tempIncrease |-> s.tempIncrease,
                        iterations |-> s.iterations,
                        results |-> results,
                        stats |-> computeStats(results),
                        contributorStats |->
                          [key \in ContributorKeySet |->
                             contributorSummary(key,
                               SortAscending(s.contributorTotals[key]))]]]

---------------------------------------------------------------------------
(* projections.js: scenario presets and getProjectedTemp                   *)
(* temperatures in thousandths of a degree; years are integers             *)

\* PROJECTION_YEARS = [2030, 2050, 2100]
PROJECTION_YEARS == <<2030, 2050, 2100>>

\* const SCENARIO_DATA
SCENARIO_DATA ==
  [ssp126 |-> [id |-> "ssp126", label |-> "SSP1-2.6",
               temperaturesByYear |-> (2030 :> 1500 @@ 2050 :> 1800 @@ 2100 :> 2000)],
   ssp245 |-> [id |-> "ssp245", label |-> "SSP2-4.5",
               temperaturesByYear |-> (2030 :> 1600 @@ 2050 :> 2200 @@ 2100 :> 2900)],
   ssp585 |-> [id |-> "ssp585", label |-> "SSP5-8.5",
               temperaturesByYear |-> (2030 :> 1800 @@ 2050 :> 2700 @@ 2100 :> 4400)]]

\* property names every object literal inherits from Object.prototype
OBJECT_PROTOTYPE_KEYS ==
  {"constructor", "__defineGetter__", "__defineSetter__", "hasOwnProperty",
   "__lookupGetter__", "__lookupSetter__", "isPrototypeOf", "propertyIsEnumerable",
   "toString", "valueOf", "__proto__", "toLocaleString"}

Null == [js |-> "null"]
\* a value inherited from Object.prototype: truthy, and without temperaturesByYear
InheritedValue(key) == [js |-> "inherited", key |-> key]

\* object[key]: an own property, else one inherited from Object.prototype, else
\* undefined
PropertyGet(object, key) ==
  IF key \in DOMAIN object THEN object[key]
  ELSE IF key \in OBJECT_PROTOTYPE_KEYS THEN InheritedValue(key)
  ELSE Undefined

\* getScenarioById(id) = SCENARIO_DATA[id] || null
getScenarioById(id) ==
  LET found == PropertyGet(SCENARIO_DATA, id)
  IN IF found = Undefined THEN Null ELSE found

RECURSIVE KeysAscending(_)
\* Object.keys(...).map(Number).sort((a, b) => a - b)
KeysAscending(keys) ==
  IF keys = {} THEN <<>>
  ELSE LET least == CHOOSE k \in keys : \A other \in keys : k <= other
       IN <<least>> \o KeysAscending(keys \ {least})

Throw(error) == [kind |-> "throw", error |-> error]
Return(value) == [kind |-> "return", value |-> value]

\* an interpolation that divides by the wrong span: (year - y0) / (y1 - year)
interpolate_WrongSpan(t0, t1, y0, y1, year) ==
  t0 + ((t1 - t0) * (year - y0)) \div (y1 - year)

\* t0 + (t1 - t0) * alpha with alpha = (year - y0) / (y1 - y0)
interpolate(t0, t1, y0, y1, year) ==
  t0 + ((t1 - t0) * (year - y0)) \div (y1 - y0)

RECURSIVE interpolateFrom(_, _, _, _)
\* the for loop over adjacent anchors, from index i (1-based); falls through to
\* the first anchor's value
interpolateFrom(i, years, temperaturesByYear, year) ==
  IF i > Len(years) - 1 THEN temperaturesByYear[years[1]]
  ELSE IF year >= years[i] /\ year <= years[i + 1]
       THEN interpolate(temperaturesByYear[years[i]], temperaturesByYear[years[i + 1]],
                        years[i], years[i + 1], year)
       ELSE interpolateFrom(i + 1, years, temperaturesByYear, year)

\* getProjectedTemp(scenarioId, year): what it returns or throws
getProjectedTemp(scenarioId, year) ==
  LET scenario == getScenarioById(scenarioId)
  IN IF scenario = Null THEN Throw("Error: Unknown scenario id")
     ELSE IF "temperaturesByYear" \notin DOMAIN scenario
          THEN Throw("TypeError: Cannot convert undefined or null to object")
          ELSE LET byYear == scenario.temperaturesByYear
                   years == KeysAscending(DOMAIN byYear)
               IN IF year \in DOMAIN byYear THEN Return(byYear[year])
                  ELSE IF year <= years[1] THEN Return(byYear[years[1]])
                  ELSE IF year >= years[Len(years)]
                       THEN Return(byYear[years[Len(years)]])
                  ELSE Return(interpolateFrom(1, years, byYear, year))

---------------------------------------------------------------------------
(* geoid.js loadGeoidTexture and main.js init *)

\* what the load of /data/WW15MGH.DAC can come to: the canvas is built, the
\* response is not OK, the buffer has the wrong byteLength, or fetch or
\* arrayBuffer throws or rejects
GeoidResponses == {"ok", "notOk", "wrongSize", "throws"}

\* loadGeoidTexture(): the canvas, or null after !response.ok, a wrong byteLength
\* or a caught exception
loadGeoidTexture(response) == IF response = "ok" THEN "canvas" ELSE "null"

\* init() before the load: let geoidCanvas = null; pc is where init() stands:
\* "start", "fetch" (suspended in await fetch), "buffer" (suspended in await
\* response.arrayBuffer()), "loaded" (loadGeoidTexture has returned, init() is to
\* continue) and "ui" (init() has set up the page)
GeoidNotLoaded ==
  [pc |-> "start", fetches |-> 0, buffers |-> 0, response |-> "none",
   canvas |-> "null"]

\* loadGeoidTexture up to await fetch(...): the call throws at once, which the
\* catch turns into null, or the function is suspended
loadGeoidTextureFetch(g, throws) ==
  IF throws
  THEN [g EXCEPT !.pc = "loaded", !.fetches = @ + 1, !.response = "throws",
                 !.canvas = loadGeoidTexture("throws")]
  ELSE [g EXCEPT !.pc = "fetch", !.fetches = @ + 1]

\* loadGeoidTexture from the settled fetch to await response.arrayBuffer():
\* outcome is "throws" for a rejected fetch, "notOk" for !response.ok, else "ok"
loadGeoidTextureResponse(g, outcome) ==
  IF outcome = "ok"
  THEN [g EXCEPT !.pc = "buffer", !.buffers = @ + 1, !.response = "ok"]
  ELSE [g EXCEPT !.pc = "loaded", !.response = outcome,
                 !.canvas = loadGeoidTexture(outcome)]

\* loadGeoidTexture from the settled arrayBuffer() to its return: outcome is
\* "throws" for a rejection, "wrongSize" for a wrong byteLength, else "ok"
loadGeoidTextureBuffer(g, outcome) ==
  [g EXCEPT !.pc = "loaded", !.response = outcome,
            !.canvas = loadGeoidTexture(outcome)]

\* no array handed to computeStats yet, no getProjectedTemp call yet
NoInput == [none |-> TRUE]
NoCall == [none |-> TRUE]

---------------------------------------------------------------------------
(* ui.js: the temperature buttons, the flood metric toggle, the compare    *)
(* button                                                                  *)
(*                                                                         *)
(* Number representation                                                   *)
(*   temperatures : thousandths of a degree (TEMP_STEP 0.05 = 50)          *)
(*   result.stats : flood heights in units of 5 cm, as seaLevelRise        *)

\* const TEMP_LEVELS = [1, 2, 3, 5, 8, 10]
TEMP_LEVELS == <<1000, 2000, 3000, 5000, 8000, 10000>>
TEMP_STEP == 50
TEMP_MAX == 10000
TEMP_MIN == 0
MONTE_CARLO_ITERATIONS == 5000
\* const FLOOD_METRICS: its keys
FLOOD_METRICS == {"median", "p95"}

\* the label updateCompareButton and the hide branch write, and the show branch's
COMPARE_LABEL == "Compare with Previous"
HIDE_LABEL == "Hide Comparison"

\* the module-level variables of ui.js, the closure variable of
\* setupComparisonButton, the compare button, the pending callbacks and the chart
\* (let histogramChart), with the state of floodVisualization.js they act on, as
\* one record
UIState ==
  [flood                   |-> ModuleState,
   currentActiveTemp       |-> currentActiveTemp,
   currentSimulationResult |-> currentSimulationResult,
   currentFloodMetric      |-> currentFloodMetric,
   comparing               |-> comparing,
   compareBtn              |-> compareBtn,
   rafCallbacks            |-> rafCallbacks,
   histogram               |-> histogram]

\* parseFloat(x.toFixed(2)): x rounded to hundredths of a degree, half away from zero
ToFixed2(x) ==
  IF x >= 0 THEN ((x + 5) \div 10) * 10 ELSE -((((-x) + 5) \div 10) * 10)

\* updateHistogram(result): const min = Math.floor(data[0] * 100) / 100, for data in
\* units of 0.01 mm, each standing for the float64 nearest to it in metres
histogramMin(data) == F64FromRatio(F64Floor(F64Times(Float64(data[1]), 100)), 100)

\* const max = Math.ceil(data[data.length - 1] * 100) / 100
histogramMax(data) == F64FromRatio(F64Ceil(F64Times(Float64(data[Len(data)]), 100)), 100)

\* const binCount = 30
BIN_COUNT == 30

\* const binWidth = (max - min) / binCount
histogramBinWidth(min, max) == F64Over(F64Sub(max, min), BIN_COUNT)

\* Math.min(Math.floor(distance / binWidth), binCount - 1) for distance = value - min:
\* 0 / 0 is NaN, and NaN stays NaN; x / 0 is Infinity or -Infinity
binIndexAt(distance, binWidth) ==
  IF binWidth.w # WideZero
  THEN Num(Min(F64Floor(F64Div(distance, binWidth)), BIN_COUNT - 1))
  ELSE IF distance.w = WideZero THEN NaN
  ELSE IF distance.s = 1 THEN Num(BIN_COUNT - 1)
  ELSE Num(- Infinity)

\* const binIndex = Math.min(Math.floor((value - min) / binWidth), binCount - 1)
binIndexOf(value, min, binWidth) == binIndexAt(F64Sub(Float64(value), min), binWidth)

\* bins[binIndex]++ on new Array(binCount).fill(0); an index that is no array index
\* creates a property and leaves the 30 counts alone
incrementBin(bins, binIndex) ==
  IF binIndex # NaN /\ binIndex.v \in 0 .. BIN_COUNT - 1
  THEN [bins EXCEPT ![binIndex.v] = @ + 1]
  ELSE bins

RECURSIVE fillBins(_, _, _)
\* for (const value of data) { ... bins[binIndex]++ } from the i-th value on, given
\* the bin index of every value
fillBins(i, binIndex, bins) ==
  IF i > Len(binIndex)
  THEN bins
  ELSE fillBins(i + 1, binIndex, incrementBin(bins, binIndex[i]))

\* the loop of updateHistogram over data: the bin index of every value and the
\* counts handed to the chart
histogramBins(binIndex) ==
  [binIndex |-> binIndex,
   bins     |-> fillBins(1, binIndex, [b \in 0 .. BIN_COUNT - 1 |-> 0])]

\* the bin index of every value of data
histogramIndexes(data, min, binWidth) ==
  [i \in 1 .. Len(data) |-> binIndexOf(data[i], min, binWidth)]

\* updateHistogram(result) for a result with tempIncrease > 0
updateHistogram(data) ==
  histogramBins(histogramIndexes(data, histogramMin(data),
                                 histogramBinWidth(histogramMin(data),
                                                   histogramMax(data))))

\* the longest sample handed to updateHistogram in HistogramSpec
MaxBinned == 4

\* sample values in units of 0.01 mm: 0.25 m, 0.253 m, 0.29 m (times 100 it is
\* 28.999999999999996 in float64), 0.4865 m, 0.5 m, 1 m
HistogramValues == <<25000, 25300, 29000, 48650, 50000, 100000>>

\* updateHistogram(data), which depends on data alone, worked out once for each of
\* the given samples
histogramTable(samples) == [data \in samples |-> updateHistogram(data)]

\* the sorted totals of a run of MONTE_CARLO_ITERATIONS passes, of which four are
\* kept, in units of 0.01 mm (5000 to a height unit): the least, the median, the
\* 95th percentile and the greatest; spread says how far the least is below the
\* median (no total is negative) and the greatest above the 95th percentile
simulationResults(median, p95, spread) ==
  <<Max(0, 5000 * median - spread[1]), 5000 * median, 5000 * p95,
    5000 * p95 + spread[2]>>

\* the spreads of the runs the UI starts: none, and 1 cm below with 2.5 cm above
ResultSpreads == {<<0, 0>>, <<1000, 2500>>}

\* the spread of the runs started during start-up
StartupSpreads == {<<1000, 2500>>}

\* result.stats.median and result.stats.p95 of the runs the UI starts, in height units
RunStats == {<<1, MaxSLR>>, <<MaxSLR, MaxSLR>>}

\* the samples of HistogramSpec: non-empty and ascending (runSimulation sorts
\* result.results)
HistogramSamples ==
  UNION { { [i \in 1 .. n |-> HistogramValues[f[i]]] :
              f \in { g \in [1 .. n -> 1 .. Len(HistogramValues)] :
                        \A i \in 1 .. n - 1 : g[i] <= g[i + 1] } } :
          n \in 1 .. MaxBinned }

HISTOGRAMS ==
  histogramTable(HistogramSamples
                 \cup {simulationResults(st[1], st[2], spread) :
                         st \in RunStats, spread \in ResultSpreads})

\* updateHistogram(data)
histogramOf(data) ==
  IF data \in DOMAIN HISTOGRAMS THEN HISTOGRAMS[data] ELSE updateHistogram(data)

\* updateHistogram(result): let histogramChart afterwards; a null result or one
\* with tempIncrease 0 destroys the chart
histogramChartAfter(result) ==
  IF result = Null \/ result.tempIncrease = 0
  THEN NoCall
  ELSE [data |-> result.results] @@ histogramOf(result.results)

\* hasPreviousSnapshot()
hasPreviousSnapshot(s) == s.previousSnapshot # NoSnapshot

\* updateCompareButton(): disabled, label (class and #comparisonStats are display only)
updateCompareButton(u) ==
  [u EXCEPT !.compareBtn = [disabled    |-> ~ hasPreviousSnapshot(u.flood),
                            textContent |-> COMPARE_LABEL]]

\* getFloodLevelFromResult(result)
getFloodLevelFromResult(u, result) == result.stats[u.currentFloodMetric]

\* applySimulationResult(viewer, result, recordSnapshot); the stats panel and the
\* info overlay it refreshes are display only
applySimulationResult(u, result, recordSnapshot, now) ==
  LET floodLevelMeters == getFloodLevelFromResult(u, result)
  IN updateCompareButton(
       [u EXCEPT !.flood = setFloodLevel(@, floodLevelMeters, result,
                                         recordSnapshot, now),
                 !.histogram = histogramChartAfter(result)])

\* runAndVisualize(viewer, tempIncrease): the synchronous part; the simulation is
\* deferred to a requestAnimationFrame callback that keeps tempIncrease
runAndVisualize(u, tempIncrease) ==
  [u EXCEPT !.currentActiveTemp = tempIncrease,
            !.rafCallbacks = Append(@, tempIncrease)]

\* the object runSimulation(tempIncrease, MONTE_CARLO_ITERATIONS, ...) returns, as far
\* as the UI reads it for the flood display and the chart
SimulationResult(tempIncrease, median, p95, spread) ==
  [tempIncrease |-> tempIncrease,
   iterations   |-> MONTE_CARLO_ITERATIONS,
   stats        |-> [median |-> median, p95 |-> p95],
   results      |-> simulationResults(median, p95, spread)]

\* the requestAnimationFrame callback of runAndVisualize, oldest pending first
runAndVisualizeCallback(u, result, now) ==
  applySimulationResult(
    [u EXCEPT !.currentSimulationResult = result,
              !.rafCallbacks = Tail(@)],
    result, TRUE, now)

\* resetBtn click handler, and the same statements in the minus handler's
\* newTemp <= 0 branch
resetClick(u) ==
  updateCompareButton(
    [u EXCEPT !.currentActiveTemp = 0,
              !.currentSimulationResult = Null,
              !.flood = ClearFlood(@),
              !.histogram = histogramChartAfter(Null)])

\* the temperature a minus click computes
minusNewTemp(temp) == Max(TEMP_MIN, ToFixed2(temp - TEMP_STEP))

\* minusBtn click handler
minusClick(u) ==
  LET newTemp == minusNewTemp(u.currentActiveTemp)
  IN IF newTemp <= 0 THEN resetClick(u) ELSE runAndVisualize(u, newTemp)

\* a plus click without the upper clamp
plusNewTemp_Unclamped(temp) == ToFixed2(temp + TEMP_STEP)

\* the temperature a plus click computes
plusNewTemp(temp) == Min(TEMP_MAX, ToFixed2(temp + TEMP_STEP))

\* plusBtn click handler
plusClick(u) ==
  LET newTemp == plusNewTemp(u.currentActiveTemp)
  IN IF newTemp > 0 THEN runAndVisualize(u, newTemp) ELSE u

\* .flood-metric-btn click handler
metricClick(u, metric, now) ==
  IF metric \notin FLOOD_METRICS \/ metric = u.currentFloodMetric
  THEN u
  ELSE LET u1 == [u EXCEPT !.currentFloodMetric = metric]
       IN IF u1.currentSimulationResult # Null /\ u1.currentActiveTemp > 0
          THEN applySimulationResult(u1, u1.currentSimulationResult, FALSE, now)
          ELSE u1

\* #compareBtn click handler
compareClick(u) ==
  IF u.comparing
  THEN [u EXCEPT !.flood = hideComparison(@),
                 !.comparing = FALSE,
                 !.compareBtn.textContent = COMPARE_LABEL]
  ELSE IF showComparisonReturn(u.flood)
       THEN [u EXCEPT !.flood = showComparison(@),
                      !.comparing = TRUE,
                      !.compareBtn.textContent = HIDE_LABEL]
       ELSE u

\* the page before initUI has handled anything; the compare button's markup is not
\* part of ui.js
UIIdle ==
  /\ currentActiveTemp = 0
  /\ currentSimulationResult = Null
  /\ currentFloodMetric = "p95"
  /\ comparing = FALSE
  /\ compareBtn = [disabled |-> TRUE, textContent |-> COMPARE_LABEL]
  /\ rafCallbacks = << >>
  /\ fineClicks = 0

---------------------------------------------------------------------------
(* onboarding.js: the introductory overlay                                 *)

\* SLIDES.length
SLIDE_COUNT == 4

\* the module variables of onboarding.js with the browser state showOnboarding
\* creates: the overlay in the document, the pending fade-in frame, the pending
\* dismiss timers, the calls of resolve, the TypeErrors thrown on a null overlayEl
OnboardingState ==
  [currentSlide |-> currentSlide,
   overlayEl    |-> overlayEl,
   inDocument   |-> onboarding.inDocument,
   fadeIn       |-> onboarding.fadeIn,
   timers       |-> onboarding.timers,
   removed      |-> onboarding.removed,
   resolved     |-> onboarding.resolved,
   nullDeref    |-> onboarding.nullDeref,
   shown        |-> onboarding.shown,
   panelsHidden |-> onboarding.panelsHidden]

\* goToSlide(index)
goToSlide(o, index) == [o EXCEPT !.currentSlide = index]

\* showOnboarding(): hides the control panels, builds the overlay, shows slide 0,
\* requests the fade-in frame
showOnboarding(o) ==
  goToSlide([o EXCEPT !.shown = TRUE,
                      !.panelsHidden = TRUE,
                      !.overlayEl = "element",
                      !.inDocument = TRUE,
                      !.currentSlide = 0,
                      !.fadeIn = TRUE], 0)

\* the requestAnimationFrame callback of showOnboarding: overlayEl.classList.add
fadeInCallback(o) ==
  IF o.overlayEl = "null"
  THEN [o EXCEPT !.fadeIn = FALSE, !.nullDeref = @ + 1]
  ELSE [o EXCEPT !.fadeIn = FALSE]

\* dismiss(resolve): overlayEl.classList.remove("visible"); setTimeout(..., 300)
dismiss(o) ==
  IF o.overlayEl = "null"
  THEN [o EXCEPT !.nullDeref = @ + 1]
  ELSE [o EXCEPT !.timers = @ + 1]

\* the setTimeout callback of dismiss
dismissTimeout(o) ==
  IF o.overlayEl = "null"
  THEN [o EXCEPT !.timers = @ - 1, !.nullDeref = @ + 1]
  ELSE [o EXCEPT !.timers = @ - 1,
                 !.inDocument = FALSE,
                 !.removed = @ + 1,
                 !.overlayEl = "null",
                 !.panelsHidden = FALSE,
                 !.resolved = @ + 1]

\* #onboardingPrev click handler
prevClick(o) ==
  IF o.currentSlide > 0 THEN goToSlide(o, o.currentSlide - 1) ELSE o

\* #onboardingNext click handler
nextClick(o) ==
  IF o.currentSlide < SLIDE_COUNT - 1
  THEN goToSlide(o, o.currentSlide + 1)
  ELSE dismiss(o)

\* the page before showOnboarding
OnboardingIdle ==
  /\ currentSlide = 0
  /\ overlayEl = "null"
  /\ onboarding = [inDocument |-> FALSE, fadeIn |-> FALSE, timers |-> 0,
                   removed |-> 0, resolved |-> 0, nullDeref |-> 0,
                   shown |-> FALSE, panelsHidden |-> FALSE]

\* no click handled, no histogram drawn, no overlay shown
AppIdle == UIIdle /\ histogram = NoCall /\ OnboardingIdle /\ destroyed = FALSE

---------------------------------------------------------------------------
(* Actions *)

\* the module variables take the values of record s
Commit(s) ==
  /\ floodMaterial' = s.floodMaterial
  /\ previousSnapshot' = s.previousSnapshot
  /\ currentSnapshot' = s.currentSnapshot
  /\ animationFrame' = s.animationFrame
  /\ waterAlpha' = s.waterAlpha
  /\ targetAlpha' = s.targetAlpha
  /\ alphaAnimating' = s.alphaAnimating
  /\ useGeoidTexture' = s.useGeoidTexture
  /\ globeMaterial' = s.globeMaterial

\* the record kept in lastOp
Call(name, args, ret) == [name |-> name, args |-> args, ret |-> ret]

NoArgs == [none |-> TRUE]

\* main.js init(): initFloodVisualization(viewer, geoidCanvas), once, before the UI
InitFloodVisualization ==
  /\ floodMaterial = NoMaterial
  /\ \E geoidCanvas \in {"null", "canvas"} :
       /\ Commit(initFloodVisualization(ModuleState, geoidCanvas))
       /\ lastOp' = Call("initFloodVisualization", [geoidCanvas |-> geoidCanvas], "void")
  /\ animatePending' = animatePending + 1
  /\ UNCHANGED <<fadePolicy, clock, shaderVars, geoidLoad, engineVars, appVars>>

\* a call of setFloodLevel with arguments from the given sets; Date.now() is read
\* only when a snapshot is recorded
SetFloodLevelFrom(slrs, results, times) ==
  /\ floodMaterial # NoMaterial
  /\ \E seaLevelRise \in slrs, simulationResult \in results,
        recordSnapshot \in BOOLEAN, now \in times :
       /\ now >= clock
       /\ ~ recordSnapshot => now = clock
       /\ clock' = now
       /\ Commit(setFloodLevel(ModuleState, seaLevelRise, simulationResult,
                               recordSnapshot, now))
       /\ lastOp' = Call("setFloodLevel",
                         [seaLevelRise |-> seaLevelRise,
                          simulationResult |-> simulationResult,
                          recordSnapshot |-> recordSnapshot], "void")
  /\ UNCHANGED <<fadePolicy, shaderVars, geoidLoad, engineVars, animatePending, appVars>>

\* a call of setFloodLevel
SetFloodLevel == SetFloodLevelFrom(SLRInputs, ResultIds, ClockValues)

\* a call of clearFlood
ClearFloodCall ==
  /\ floodMaterial # NoMaterial
  /\ Commit(ClearFlood(ModuleState))
  /\ lastOp' = Call("clearFlood", NoArgs, "void")
  /\ UNCHANGED <<fadePolicy, clock, shaderVars, geoidLoad, engineVars, animatePending, appVars>>

\* a call of showComparison
ShowComparison ==
  /\ floodMaterial # NoMaterial
  /\ Commit(showComparison(ModuleState))
  /\ lastOp' = Call("showComparison", NoArgs,
                    IF showComparisonReturn(ModuleState) THEN "true" ELSE "false")
  /\ UNCHANGED <<fadePolicy, clock, shaderVars, geoidLoad, engineVars, animatePending, appVars>>

\* a call of hideComparison
HideComparison ==
  /\ floodMaterial # NoMaterial
  /\ Commit(hideComparison(ModuleState))
  /\ lastOp' = Call("hideComparison", NoArgs, "void")
  /\ UNCHANGED <<fadePolicy, clock, shaderVars, geoidLoad, engineVars, animatePending, appVars>>

\* the browser runs the pending animate callback, which requests the next frame:
\* one callback leaves the pending list and one enters it
Animate ==
  /\ animatePending > 0
  /\ Commit(animate(ModuleState))
  /\ lastOp' = Call("animate", NoArgs, "void")
  /\ UNCHANGED <<fadePolicy, clock, shaderVars, geoidLoad, engineVars, animatePending, appVars>>

\* module load: the let declarations of floodVisualization.js
InitModule ==
  /\ floodMaterial = NoMaterial
  /\ previousSnapshot = NoSnapshot
  /\ currentSnapshot = NoSnapshot
  /\ animationFrame = 0
  /\ animatePending = 0
  /\ waterAlpha = 0
  /\ targetAlpha = 0
  /\ alphaAnimating = FALSE
  /\ useGeoidTexture = FALSE
  /\ globeMaterial = "undefined"
  /\ clock = 0
  /\ lastOp = Call("load", NoArgs, "void")
  /\ materialInput = NoFragment
  /\ material = NoOutput

\* no simulation, statistics or projection call yet
EngineIdle ==
  /\ sim = IdleSim
  /\ prevRun = NoRun
  /\ statsInput = NoInput
  /\ statsResult = NoResult
  /\ projection = NoCall

\* the current source
Init ==
  /\ InitModule
  /\ fadePolicy = "immediate"
  /\ geoidLoad = GeoidNotLoaded
  /\ EngineIdle
  /\ AppIdle

\* the current source or the fading variant of clearFlood
InitLineage ==
  /\ InitModule
  /\ fadePolicy \in {"immediate", "fading"}
  /\ geoidLoad = GeoidNotLoaded
  /\ AppIdle
  /\ EngineIdle

Next ==
  \/ InitFloodVisualization
  \/ SetFloodLevel
  \/ ClearFloodCall
  \/ ShowComparison
  \/ HideComparison
  \/ Animate

Spec == Init /\ [][Next]_vars

\* the renderer shades one fragment with the material on the globe
Render ==
  /\ globeMaterial = "floodMaterial"
  /\ materialInput # NoFragment
  /\ material' = czm_getMaterial(floodMaterial, materialInput)
  /\ lastOp' = Call("czm_getMaterial", NoArgs, "void")
  /\ UNCHANGED <<floodMaterial, previousSnapshot, currentSnapshot, animationFrame,
                 waterAlpha, targetAlpha, alphaAnimating, useGeoidTexture,
                 globeMaterial, fadePolicy, clock, materialInput,
                 geoidLoad, engineVars, animatePending, appVars>>

\* the uniform values of an attached material: setFloodLevel attaches the material
\* only with a level above 0 (it returns through clearFlood otherwise), showComparison
\* writes a recorded seaLevelRise of any sign, animate moves waterAlpha from 0
\* towards the target
AttachedLevels == 1 .. MaxSLR
ComparisonLevels == (-1) .. MaxSLR
AlphaValues == {0, AlphaStep(FLOOD_TARGET_ALPHA), FLOOD_TARGET_ALPHA}
ShaderMaterials ==
  { [type |-> "FloodGeoid",
     uniforms |-> [seaLevelRise |-> l, comparisonSLR |-> c, waterAlpha |-> a]] :
       l \in AttachedLevels, c \in ComparisonLevels, a \in AlphaValues }
  \cup
  { [type |-> "FloodFallback",
     uniforms |-> [floodLevel |-> l, waterAlpha |-> a, comparisonLevel |-> c]] :
       l \in AttachedLevels, c \in ComparisonLevels, a \in AlphaValues }

\* a shader run: an attached material, any fragment
InitShader ==
  /\ floodMaterial \in ShaderMaterials
  /\ useGeoidTexture = (floodMaterial.type = "FloodGeoid")
  /\ globeMaterial = "floodMaterial"
  /\ waterAlpha = floodMaterial.uniforms.waterAlpha
  /\ targetAlpha = FLOOD_TARGET_ALPHA
  /\ alphaAnimating = (waterAlpha # targetAlpha)
  /\ previousSnapshot = NoSnapshot
  /\ currentSnapshot = NoSnapshot
  /\ animationFrame = 1
  /\ animatePending = 1
  /\ fadePolicy = "immediate"
  /\ clock = 0
  /\ lastOp = Call("load", NoArgs, "void")
  /\ materialInput \in Fragments
  /\ material = NoOutput
  /\ geoidLoad = GeoidNotLoaded
  /\ AppIdle
  /\ EngineIdle

ShaderNext == Render

\* the fragment shaders as functions of their uniforms and inputs
ShaderSpec == InitShader /\ [][ShaderNext]_vars

\* the fade claims are about the alpha dynamics: their setFloodLevel calls keep one
\* payload and the two ends of the seaLevelRise range
FadeSetFloodLevel == SetFloodLevelFrom({0, MaxSLR}, {1}, {0})

FadeNext ==
  \/ InitFloodVisualization
  \/ FadeSetFloodLevel
  \/ ClearFloodCall
  \/ ShowComparison
  \/ HideComparison
  \/ Animate

\* the current source and the fading variant, with the browser delivering
\* animation frames for as long as a callback is pending
FairSpec == InitLineage /\ [][FadeNext]_vars /\ WF_vars(Animate)

---------------------------------------------------------------------------
(* The simulation engine as a state machine *)

\* runSimulation iteration counts range over -1 .. MaxIterations
MaxIterations == 2
\* runs followed from their last pass on have up to MaxLongRun passes
MaxLongRun == 3
\* arrays handed to computeStats have up to MaxSample elements
MaxSample == 21
\* getProjectedTemp years range from YearMargin before the first anchor to
\* YearMargin after the last
YearMargin == 100

TempInputs == {-1, 0} \cup PositiveTemps
IterationInputs == (-1) .. MaxIterations

\* what Math.random() returns to the ten calls of one pass of the for loop: every
\* call draws any value of RandomGrid, whatever the other calls drew
DrawInputs == [1 .. 10 -> RandomGrid]

\* a call of runSimulation(tempIncrease, iterations, { seed }) with arguments from
\* the given sets: the function up to its for loop
RunSimulationFrom(temps, counts, seeds) ==
  /\ sim.pc = "idle"
  /\ \E tempIncrease \in temps, iterations \in counts, seed \in seeds :
       sim' = runSimulationEnter(tempIncrease, iterations, seed)
  /\ UNCHANGED <<floodMaterial, previousSnapshot, currentSnapshot, animationFrame,
                 waterAlpha, targetAlpha, alphaAnimating, useGeoidTexture,
                 globeMaterial, fadePolicy, clock, lastOp, shaderVars, geoidLoad,
                 prevRun, statsInput, statsResult, projection, animatePending, appVars>>

\* a call of runSimulation(tempIncrease, iterations)
RunSimulation == RunSimulationFrom(TempInputs, IterationInputs, {"none"})

\* one pass of for (let i = 0; i < iterations; i++), every Math.random() call
\* returning any value of RandomGrid
SingleIteration ==
  /\ sim.pc = "loop"
  /\ sim.i < sim.iterations
  /\ \E draws \in DrawInputs :
       LET iteration == singleIteration(sim.tempIncrease, draws)
       IN sim' = runSimulationPush(sim, iteration)
  /\ UNCHANGED <<floodMaterial, previousSnapshot, currentSnapshot, animationFrame,
                 waterAlpha, targetAlpha, alphaAnimating, useGeoidTexture,
                 globeMaterial, fadePolicy, clock, lastOp, shaderVars, geoidLoad,
                 prevRun, statsInput, statsResult, projection, animatePending, appVars>>

\* the loop is over: sort, reduce, return
RunSimulationReturn ==
  /\ sim.pc = "loop"
  /\ ~ (sim.i < sim.iterations)
  /\ sim' = runSimulationReturn(sim)
  /\ UNCHANGED <<floodMaterial, previousSnapshot, currentSnapshot, animationFrame,
                 waterAlpha, targetAlpha, alphaAnimating, useGeoidTexture,
                 globeMaterial, fadePolicy, clock, lastOp, shaderVars, geoidLoad,
                 prevRun, statsInput, statsResult, projection, animatePending, appVars>>

\* the page is loaded; Math.random() has not been called
InitSim ==
  /\ InitModule
  /\ fadePolicy = "immediate"
  /\ geoidLoad = GeoidNotLoaded
  /\ AppIdle
  /\ sim = IdleSim
  /\ prevRun = NoRun
  /\ statsInput = NoInput
  /\ statsResult = NoResult
  /\ projection = NoCall

SimNext ==
  \/ RunSimulation
  \/ SingleIteration
  \/ RunSimulationReturn

\* one invocation of runSimulation
SimSpec == InitSim /\ [][SimNext]_vars

\* what Math.random() returned in an earlier pass of a longer run: one value to
\* the five u1 calls and one to the five u2 calls
DrawSamples ==
  {[k \in 1 .. 10 |-> IF k % 2 = 1 THEN u1 ELSE u2] : u1 \in RandomGrid, u2 \in RandomGrid}

\* the draws of the passes of a longer run before its last, pass by pass
PassSequences == UNION {[1 .. n -> DrawSamples] : n \in 0 .. MaxLongRun - 1}

RECURSIVE runSimulationLoop(_, _)
\* for (let i = 0; i < iterations; i++) { ... }: the passes whose draws are listed
runSimulationLoop(s, passes) ==
  IF passes = <<>> THEN s
  ELSE runSimulationLoop(
         runSimulationPush(s, singleIteration(s.tempIncrease, Head(passes))),
         Tail(passes))

\* runSimulation(tempIncrease, iterations) before the last pass of its for loop
InitLongRun ==
  /\ InitModule
  /\ fadePolicy = "immediate"
  /\ geoidLoad = GeoidNotLoaded
  /\ AppIdle
  /\ sim \in {runSimulationLoop(
                 runSimulationEnter(tempIncrease, Len(passes) + 1, "none"), passes) :
               tempIncrease \in PositiveTemps, passes \in PassSequences}
  /\ prevRun = NoRun
  /\ statsInput = NoInput
  /\ statsResult = NoResult
  /\ projection = NoCall

LongRunNext ==
  \/ SingleIteration
  \/ RunSimulationReturn

\* the last pass, with every Math.random() call free, then the sort and the
\* summaries, of runs of up to MaxLongRun passes
LongRunSpec == InitLongRun /\ [][LongRunNext]_vars

\* the seed the UI passes: buildSeedForTemp gives 1337 + round(tempIncrease * 1000)
SeedInputs == {1387}

\* the first call of a pair of runSimulation calls: one step of the temperature
\* control, one iteration
RunSimulationFirst == RunSimulationFrom({5}, {1}, SeedInputs)

\* runSimulation is called again with the arguments of the invocation that just
\* returned
RunSimulationAgain ==
  /\ sim.pc = "done"
  /\ prevRun = NoRun
  /\ prevRun' = [tempIncrease |-> sim.tempIncrease, iterations |-> sim.iterations,
                 seed |-> sim.seed, ret |-> sim.ret]
  /\ sim' = runSimulationEnter(sim.tempIncrease, sim.iterations, sim.seed)
  /\ UNCHANGED <<floodMaterial, previousSnapshot, currentSnapshot, animationFrame,
                 waterAlpha, targetAlpha, alphaAnimating, useGeoidTexture,
                 globeMaterial, fadePolicy, clock, lastOp, shaderVars, geoidLoad,
                 statsInput, statsResult, projection, animatePending, appVars>>

RerunNext ==
  \/ RunSimulationFirst
  \/ SingleIteration
  \/ RunSimulationReturn
  \/ RunSimulationAgain

\* two invocations of runSimulation with the same arguments
RerunSpec == InitSim /\ [][RerunNext]_vars

---------------------------------------------------------------------------
(* computeStats as a function of a sorted array *)

\* the values of the sampled arrays, in sea level units
SampleValues == <<0, 7000, 48000>>

\* the ascending array with c1, c2 and c3 copies of the three sample values
SortedSample(c1, c2, c3) ==
  [k \in 1 .. (c1 + c2 + c3) |->
     IF k <= c1 THEN SampleValues[1]
     ELSE IF k <= c1 + c2 THEN SampleValues[2] ELSE SampleValues[3]]

SortedSamples ==
  { SortedSample(c1, c2, c3) :
      c1 \in 0 .. MaxSample, c2 \in 0 .. MaxSample, c3 \in 0 .. MaxSample }

\* a call of computeStats(sorted)
ComputeStats ==
  /\ statsInput # NoInput
  /\ statsResult = NoResult
  /\ statsResult' = computeStats(statsInput.array)
  /\ UNCHANGED <<floodMaterial, previousSnapshot, currentSnapshot, animationFrame,
                 waterAlpha, targetAlpha, alphaAnimating, useGeoidTexture,
                 globeMaterial, fadePolicy, clock, lastOp, shaderVars, geoidLoad,
                 sim, prevRun, statsInput, projection, animatePending, appVars>>

InitStats ==
  /\ InitModule
  /\ fadePolicy = "immediate"
  /\ geoidLoad = GeoidNotLoaded
  /\ AppIdle
  /\ sim = IdleSim
  /\ prevRun = NoRun
  /\ statsInput \in { [array |-> s] : s \in { a \in SortedSamples : Len(a) <= MaxSample } }
  /\ statsResult = NoResult
  /\ projection = NoCall

StatsNext == ComputeStats

StatsSpec == InitStats /\ [][StatsNext]_vars

---------------------------------------------------------------------------
(* getProjectedTemp as a function of its arguments *)

\* scenario ids a caller may pass: the presets, misspellings, and names that
\* object literals inherit
ScenarioIdInputs ==
  {"ssp126", "ssp245", "ssp585", "unknown", "", "SSP245", "ssp370",
   "constructor", "toString", "isPrototypeOf"}

YearInputs ==
  (PROJECTION_YEARS[1] - YearMargin) .. (PROJECTION_YEARS[3] + YearMargin)

\* a call of getProjectedTemp(scenarioId, year)
GetProjectedTemp ==
  /\ projection = NoCall
  /\ \E scenarioId \in ScenarioIdInputs, year \in YearInputs :
       projection' = [scenarioId |-> scenarioId, year |-> year,
                      outcome |-> getProjectedTemp(scenarioId, year)]
  /\ UNCHANGED <<floodMaterial, previousSnapshot, currentSnapshot, animationFrame,
                 waterAlpha, targetAlpha, alphaAnimating, useGeoidTexture,
                 globeMaterial, fadePolicy, clock, lastOp, shaderVars, geoidLoad,
                 sim, prevRun, statsInput, statsResult, animatePending, appVars>>

ProjectionNext == GetProjectedTemp

ProjectionSpec == Init /\ [][ProjectionNext]_vars

---------------------------------------------------------------------------
(* The flood display from module load to clean-up *)

\* a call of destroyFloodVisualization
DestroyFloodVisualization ==
  /\ floodMaterial # NoMaterial
  /\ Commit(destroyFloodVisualization(ModuleState))
  /\ animatePending' = pendingAfterDestroy(ModuleState, animatePending)
  /\ destroyed' = TRUE
  /\ lastOp' = Call("destroyFloodVisualization", NoArgs, "void")
  /\ UNCHANGED <<fadePolicy, clock, shaderVars, geoidLoad, engineVars, uiVars,
                 histogram, onboardingVars>>

LifecycleNext ==
  \/ InitFloodVisualization
  \/ FadeSetFloodLevel
  \/ ClearFloodCall
  \/ ShowComparison
  \/ HideComparison
  \/ Animate
  \/ DestroyFloodVisualization

\* the flood display from module load to clean-up and after
LifecycleSpec == Init /\ [][LifecycleNext]_vars

---------------------------------------------------------------------------
(* The UI as a state machine: clicks, and the callbacks they leave pending *)

\* plus and minus clicks handled in one run of the model
MaxFineClicks == 1
\* runAndVisualize callbacks pending in requestAnimationFrame at one time
MaxPending == 1

\* the variables of ui.js take the values of record u, and so do those of
\* floodVisualization.js
CommitUI(u) ==
  /\ Commit(u.flood)
  /\ currentActiveTemp' = u.currentActiveTemp
  /\ currentSimulationResult' = u.currentSimulationResult
  /\ currentFloodMetric' = u.currentFloodMetric
  /\ comparing' = u.comparing
  /\ compareBtn' = u.compareBtn
  /\ rafCallbacks' = u.rafCallbacks
  /\ histogram' = u.histogram

\* the controls of ui.js take clicks while their panel is displayed: showOnboarding
\* sets display none on #controlPanel, and the dismiss timer puts it back
ControlsDisplayed == ~ onboarding.panelsHidden

\* what no click and no callback of ui.js touches
UIFrame ==
  UNCHANGED <<fadePolicy, shaderVars, geoidLoad, engineVars, animatePending,
              onboardingVars, destroyed>>

\* a click on the Reset button
ResetClick ==
  /\ floodMaterial # NoMaterial
  /\ ControlsDisplayed
  /\ CommitUI(resetClick(UIState))
  /\ lastOp' = Call("resetClick", NoArgs, "void")
  /\ UNCHANGED <<clock, fineClicks>>
  /\ UIFrame

\* a click on one of the given preset buttons
PresetClickFrom(levels) ==
  /\ floodMaterial # NoMaterial
  /\ ControlsDisplayed
  /\ Len(rafCallbacks) < MaxPending
  /\ \E temp \in levels :
       /\ CommitUI(runAndVisualize(UIState, temp))
       /\ lastOp' = Call("presetClick", [temp |-> temp], "void")
  /\ UNCHANGED <<clock, fineClicks>>
  /\ UIFrame

\* a click on the minus button
MinusClick ==
  /\ floodMaterial # NoMaterial
  /\ ControlsDisplayed
  /\ fineClicks < MaxFineClicks
  /\ Len(minusClick(UIState).rafCallbacks) <= MaxPending
  /\ CommitUI(minusClick(UIState))
  /\ lastOp' = Call("minusClick", NoArgs, "void")
  /\ fineClicks' = fineClicks + 1
  /\ UNCHANGED clock
  /\ UIFrame

\* a click on the plus button
PlusClick ==
  /\ floodMaterial # NoMaterial
  /\ ControlsDisplayed
  /\ fineClicks < MaxFineClicks
  /\ Len(plusClick(UIState).rafCallbacks) <= MaxPending
  /\ CommitUI(plusClick(UIState))
  /\ lastOp' = Call("plusClick", NoArgs, "void")
  /\ fineClicks' = fineClicks + 1
  /\ UNCHANGED clock
  /\ UIFrame

\* the browser runs the oldest pending runAndVisualize callback; the statistics
\* and the totals of the run are whatever the sampled values give: the statistics
\* from the given set, the totals around them with one of the given spreads
RunAndVisualizeCallbackFrom(stats, spreads, times) ==
  /\ rafCallbacks # << >>
  /\ \E st \in stats, spread \in spreads, now \in times :
       LET tempIncrease == Head(rafCallbacks)
           result == SimulationResult(tempIncrease, st[1], st[2], spread)
       IN /\ now >= clock
          /\ clock' = now
          /\ CommitUI(runAndVisualizeCallback(UIState, result, now))
          /\ lastOp' = Call("runSimulation",
                            [tempIncrease |-> tempIncrease,
                             iterations |-> MONTE_CARLO_ITERATIONS],
                            result)
  /\ UNCHANGED fineClicks
  /\ UIFrame

\* a click on one of the two flood metric buttons
MetricClick ==
  /\ floodMaterial # NoMaterial
  /\ ControlsDisplayed
  /\ \E metric \in FLOOD_METRICS :
       /\ CommitUI(metricClick(UIState, metric, clock))
       /\ lastOp' = Call("metricClick", [metric |-> metric], "void")
  /\ UNCHANGED <<clock, fineClicks>>
  /\ UIFrame

\* a click on the compare button; a disabled button dispatches no click
CompareClick ==
  /\ floodMaterial # NoMaterial
  /\ ControlsDisplayed
  /\ ~ compareBtn.disabled
  /\ CommitUI(compareClick(UIState))
  /\ lastOp' = Call("compareClick", NoArgs,
                    IF ~ comparing /\ showComparisonReturn(ModuleState)
                    THEN "shown"
                    ELSE IF comparing THEN "hidden" ELSE "refused")
  /\ UNCHANGED <<clock, fineClicks>>
  /\ UIFrame

\* a click on any of the six preset buttons
TempPresetClick == PresetClickFrom({TEMP_LEVELS[i] : i \in 1 .. Len(TEMP_LEVELS)})

\* a run whose median and 95th percentile are both MaxSLR
TempRunCallback ==
  RunAndVisualizeCallbackFrom({<<MaxSLR, MaxSLR>>}, ResultSpreads, {0})

TempNext ==
  \/ InitFloodVisualization
  \/ ResetClick
  \/ TempPresetClick
  \/ MinusClick
  \/ PlusClick
  \/ TempRunCallback
  \/ Animate

\* the temperature controls and the runs they start
TempSpec == Init /\ [][TempNext]_vars

\* the +1 degree preset
PresetClick == PresetClickFrom({TEMP_LEVELS[1]})

\* a run with median 1 and 95th percentile MaxSLR
RunAndVisualizeCallback ==
  RunAndVisualizeCallbackFrom({<<1, MaxSLR>>}, ResultSpreads, ClockValues)

UINext ==
  \/ InitFloodVisualization
  \/ ResetClick
  \/ PresetClick
  \/ MinusClick
  \/ PlusClick
  \/ RunAndVisualizeCallback
  \/ MetricClick
  \/ CompareClick
  \/ Animate

\* the page after initUI: every control of ui.js, and the deferred runs
UISpec == Init /\ [][UINext]_vars

---------------------------------------------------------------------------
(* The histogram as a function of the sorted sample *)

\* a call of updateHistogram(result) with result.tempIncrease > 0
UpdateHistogram ==
  /\ \E data \in HistogramSamples :
       histogram' = [data |-> data] @@ histogramOf(data)
  /\ UNCHANGED <<floodMaterial, previousSnapshot, currentSnapshot, animationFrame,
                 waterAlpha, targetAlpha, alphaAnimating, useGeoidTexture,
                 globeMaterial, fadePolicy, clock, lastOp, shaderVars, geoidLoad,
                 engineVars, animatePending, uiVars, onboardingVars, destroyed>>

HistogramNext == UpdateHistogram

HistogramSpec == Init /\ [][HistogramNext]_vars

---------------------------------------------------------------------------
(* The onboarding overlay as a state machine *)

\* dismiss timers pending at one time
MaxTimers == 3

\* the variables of onboarding.js and the browser state of the overlay take the
\* values of record o
CommitOnboarding(o) ==
  /\ currentSlide' = o.currentSlide
  /\ overlayEl' = o.overlayEl
  /\ onboarding' = [inDocument |-> o.inDocument, fadeIn |-> o.fadeIn,
                     timers |-> o.timers, removed |-> o.removed,
                     resolved |-> o.resolved, nullDeref |-> o.nullDeref,
                     shown |-> o.shown, panelsHidden |-> o.panelsHidden]

\* what onboarding.js does not touch
OnboardingFrame ==
  UNCHANGED <<floodMaterial, previousSnapshot, currentSnapshot, animationFrame,
              waterAlpha, targetAlpha, alphaAnimating, useGeoidTexture,
              globeMaterial, fadePolicy, clock, shaderVars, geoidLoad,
              engineVars, animatePending, uiVars, histogram, destroyed>>

\* main.js init(): await showOnboarding(), once
ShowOnboarding ==
  /\ ~ onboarding.shown
  /\ CommitOnboarding(showOnboarding(OnboardingState))
  /\ lastOp' = Call("showOnboarding", NoArgs, "promise")
  /\ OnboardingFrame

\* the browser runs the fade-in frame callback
FadeInFrame ==
  /\ onboarding.fadeIn
  /\ CommitOnboarding(fadeInCallback(OnboardingState))
  /\ lastOp' = Call("fadeInCallback", NoArgs, "void")
  /\ OnboardingFrame

\* a click on Previous; the buttons can be clicked while the overlay is in the
\* document
PrevClick ==
  /\ onboarding.inDocument
  /\ CommitOnboarding(prevClick(OnboardingState))
  /\ lastOp' = Call("prevClick", NoArgs, "void")
  /\ OnboardingFrame

\* a click on Next / Get Started, with at most maxTimers dismiss timers pending
NextClickUpTo(maxTimers) ==
  /\ onboarding.inDocument
  /\ nextClick(OnboardingState).timers <= maxTimers
  /\ CommitOnboarding(nextClick(OnboardingState))
  /\ lastOp' = Call("nextClick", NoArgs, "void")
  /\ OnboardingFrame

NextClick == NextClickUpTo(MaxTimers)

\* a click on one of the dots
DotClick ==
  /\ onboarding.inDocument
  /\ \E i \in 0 .. SLIDE_COUNT - 1 :
       /\ CommitOnboarding(goToSlide(OnboardingState, i))
       /\ lastOp' = Call("dotClick", [index |-> i], "void")
  /\ OnboardingFrame

\* 300 ms after a dismiss: its timer callback runs; the frame showOnboarding
\* requested has run by then, a page that takes clicks being rendered many times
\* in 300 ms
DismissTimeout ==
  /\ onboarding.timers > 0
  /\ ~ onboarding.fadeIn
  /\ CommitOnboarding(dismissTimeout(OnboardingState))
  /\ lastOp' = Call("dismissTimeout", NoArgs, "void")
  /\ OnboardingFrame

OnboardingNext ==
  \/ ShowOnboarding
  \/ FadeInFrame
  \/ PrevClick
  \/ NextClick
  \/ DotClick
  \/ DismissTimeout

OnboardingSpec == Init /\ [][OnboardingNext]_vars

---------------------------------------------------------------------------
(* Start-up: main.js init() loads the geoid, then sets up the flood display *)

\* init() is called: geoidCanvas = await loadGeoidTexture() runs up to await fetch
LoadGeoidTexture ==
  /\ geoidLoad.pc = "start"
  /\ \E throws \in BOOLEAN : geoidLoad' = loadGeoidTextureFetch(geoidLoad, throws)
  /\ UNCHANGED <<floodMaterial, previousSnapshot, currentSnapshot, animationFrame,
                 waterAlpha, targetAlpha, alphaAnimating, useGeoidTexture,
                 globeMaterial, fadePolicy, clock, lastOp, shaderVars, engineVars, animatePending, appVars>>

\* the fetch settles and loadGeoidTexture goes on in a later turn
FetchSettled ==
  /\ geoidLoad.pc = "fetch"
  /\ \E outcome \in GeoidResponses \ {"wrongSize"} :
       geoidLoad' = loadGeoidTextureResponse(geoidLoad, outcome)
  /\ UNCHANGED <<floodMaterial, previousSnapshot, currentSnapshot, animationFrame,
                 waterAlpha, targetAlpha, alphaAnimating, useGeoidTexture,
                 globeMaterial, fadePolicy, clock, lastOp, shaderVars, engineVars, animatePending, appVars>>

\* arrayBuffer() settles and loadGeoidTexture runs to its return
ArrayBufferSettled ==
  /\ geoidLoad.pc = "buffer"
  /\ \E outcome \in GeoidResponses \ {"notOk"} :
       geoidLoad' = loadGeoidTextureBuffer(geoidLoad, outcome)
  /\ UNCHANGED <<floodMaterial, previousSnapshot, currentSnapshot, animationFrame,
                 waterAlpha, targetAlpha, alphaAnimating, useGeoidTexture,
                 globeMaterial, fadePolicy, clock, lastOp, shaderVars, engineVars, animatePending, appVars>>

\* init() continues after line 88, in one task: initFloodVisualization(viewer,
\* geoidCanvas) with the canvas the load gave, initUI(viewer), whose handlers can
\* run from now on, and showOnboarding()
MainInit ==
  /\ geoidLoad.pc = "loaded"
  /\ Commit(initFloodVisualization(ModuleState, geoidLoad.canvas))
  /\ CommitOnboarding(showOnboarding(OnboardingState))
  /\ lastOp' = Call("init", [geoidCanvas |-> geoidLoad.canvas], "promise")
  /\ geoidLoad' = [geoidLoad EXCEPT !.pc = "ui"]
  /\ animatePending' = animatePending + 1
  /\ UNCHANGED <<fadePolicy, clock, shaderVars, engineVars, uiVars, histogram,
                 destroyed>>

\* dismiss timers pending at one time during start-up
MaxStartupTimers == 1

\* a click on Next / Get Started; Get Started is clicked once
StartupNextClick == NextClickUpTo(MaxStartupTimers)

\* a run started during start-up, with median 1 and 95th percentile MaxSLR
StartupRunCallback ==
  RunAndVisualizeCallbackFrom({<<1, MaxSLR>>}, StartupSpreads, ClockValues)

StartupNext ==
  \/ LoadGeoidTexture
  \/ FetchSettled
  \/ ArrayBufferSettled
  \/ MainInit
  \/ FadeInFrame
  \/ PrevClick
  \/ StartupNextClick
  \/ DotClick
  \/ DismissTimeout
  \/ ResetClick
  \/ PresetClick
  \/ StartupRunCallback
  \/ MetricClick
  \/ CompareClick
  \/ Animate

\* the application from page load on: the geoid load, the walkthrough, then the
\* presets, the metric toggle and the compare button over the running animation;
\* the plus and minus steps are in TempSpec and UISpec
StartupSpec == Init /\ [][StartupNext]_vars

---------------------------------------------------------------------------
(* Claims *)

Attached == globeMaterial = "floodMaterial"

RecordedSnapshot == [seaLevelRise     |-> lastOp'.args.seaLevelRise,
                     simulationResult |-> lastOp'.args.simulationResult,
                     timestamp        |-> clock']

RecordingCall ==
  /\ lastOp'.name = "setFloodLevel"
  /\ lastOp'.args.recordSnapshot
  /\ currentSnapshot # NoSnapshot

\* C1 as stated: every setFloodLevel(..., recordSnapshot = true) call made while a
\* current snapshot exists, for any seaLevelRise, leaves the old current snapshot in
\* previousSnapshot and the newly recorded snapshot in currentSnapshot.
C1_AnySeaLevelRise ==
  [][RecordingCall =>
       /\ previousSnapshot' = currentSnapshot
       /\ currentSnapshot' = RecordedSnapshot]_vars

\* C1 amended: the single-slot history holds for seaLevelRise > 0; for
\* seaLevelRise <= 0 the call ends in clearFlood, which demotes the newly recorded
\* snapshot to previousSnapshot and leaves no current snapshot. In both cases the
\* snapshot that was previous before the call is gone.
C1_SingleSlotHistory ==
  [][RecordingCall =>
       IF lastOp'.args.seaLevelRise > 0
       THEN /\ previousSnapshot' = currentSnapshot
            /\ currentSnapshot' = RecordedSnapshot
       ELSE /\ previousSnapshot' = RecordedSnapshot
            /\ currentSnapshot' = NoSnapshot]_vars

\* a recording call has demoted a different current snapshot
C1_Witness ==
  /\ lastOp.name = "setFloodLevel"
  /\ lastOp.args.recordSnapshot
  /\ lastOp.args.seaLevelRise > 0
  /\ previousSnapshot # NoSnapshot
  /\ currentSnapshot # NoSnapshot
  /\ currentSnapshot.seaLevelRise = lastOp.args.seaLevelRise
  /\ previousSnapshot.seaLevelRise # currentSnapshot.seaLevelRise

\* C2: whenever the flood material is attached to the globe, a current snapshot
\* exists and the flood-level uniform equals currentSnapshot.seaLevelRise.
C2_SurfaceFollowsCurrentSnapshot ==
  Attached =>
    /\ currentSnapshot # NoSnapshot
    /\ LevelUniform(floodMaterial) = currentSnapshot.seaLevelRise

ComparisonActive ==
  floodMaterial # NoMaterial /\ ComparisonUniform(floodMaterial) # 0

\* C3: the comparison uniform is non-zero only while both snapshots exist, and a
\* showComparison call made with a snapshot missing returns false and leaves the
\* material's uniforms as they were.
C3_ComparisonNeedsBothSnapshots ==
  /\ [](ComparisonActive =>
          previousSnapshot # NoSnapshot /\ currentSnapshot # NoSnapshot)
  /\ [][(lastOp'.name = "showComparison"
           /\ (previousSnapshot = NoSnapshot \/ currentSnapshot = NoSnapshot))
        => (lastOp'.ret = "false" /\ floodMaterial' = floodMaterial)]_vars

\* showComparison has switched the overlay on
C3_Witness ==
  /\ lastOp.name = "showComparison"
  /\ lastOp.ret = "true"
  /\ ComparisonActive
  /\ ComparisonUniform(floodMaterial) = previousSnapshot.seaLevelRise

\* land fragments: the water mask does not mark open water
LandFragments == {mi \in Fragments : mi.waterMask = 0}

\* the shader marks the fragment as comparison band
IsComparisonBand(mat) ==
  mat.diffuse = COMPARISON_COLOR /\ mat.alpha = AlphaFloat(COMPARISON_ALPHA)

\* C4: whenever previousSnapshot.seaLevelRise equals currentSnapshot.seaLevelRise,
\* no terrain height is shaded as comparison band.
C4_EqualSnapshotsEmptyBand ==
  (/\ Attached
   /\ previousSnapshot # NoSnapshot
   /\ currentSnapshot # NoSnapshot
   /\ previousSnapshot.seaLevelRise = currentSnapshot.seaLevelRise)
  => \A mi \in LandFragments : ~ IsComparisonBand(czm_getMaterial(floodMaterial, mi))

\* a clearFlood has run: called directly, or by setFloodLevel with seaLevelRise <= 0
ClearCall ==
  \/ lastOp'.name = "clearFlood"
  \/ lastOp'.name = "setFloodLevel" /\ lastOp'.args.seaLevelRise <= 0

\* the current snapshot at the moment clearFlood is entered
CurrentAtClear ==
  IF lastOp'.name = "setFloodLevel" /\ lastOp'.args.recordSnapshot
  THEN RecordedSnapshot
  ELSE currentSnapshot

\* C5: clearFlood called while a current snapshot exists sets the alpha target to 0,
\* makes that snapshot the previous one and leaves no current one; the material is
\* detached at once by the current source, and in the fading variant after finitely
\* many animation frames unless a setFloodLevel call raises the target again.
C5_ClearFloodDetaches ==
  /\ [][(ClearCall /\ CurrentAtClear # NoSnapshot) =>
          /\ targetAlpha' = 0
          /\ previousSnapshot' = CurrentAtClear
          /\ currentSnapshot' = NoSnapshot
          /\ (fadePolicy = "immediate" => globeMaterial' = "undefined")]_vars
  /\ ((fadePolicy = "fading" /\ Attached /\ targetAlpha = 0)
        ~> (~ Attached \/ targetAlpha # 0))

\* the fading variant, one frame before the faded-out material is detached
C5_Witness ==
  /\ fadePolicy = "fading"
  /\ lastOp.name = "animate"
  /\ Attached
  /\ targetAlpha = 0
  /\ alphaAnimating
  /\ waterAlpha > 0
  /\ waterAlpha <= ALPHA_SNAP
  /\ currentSnapshot = NoSnapshot
  /\ previousSnapshot # NoSnapshot

Flooding == Attached /\ targetAlpha = FLOOD_TARGET_ALPHA /\ alphaAnimating
Steady == Attached /\ waterAlpha = FLOOD_TARGET_ALPHA /\ ~ alphaAnimating

\* C6: setFloodLevel with seaLevelRise > 0 attaches the material with waterAlpha 0 and
\* targetAlpha 0.55; while fading in, a frame never lowers waterAlpha; unless
\* setFloodLevel or clearFlood is called again, finitely many frames bring waterAlpha
\* to exactly 0.55 with alphaAnimating false; and a frame in that state changes nothing.
C6_FadeInReachesSteady ==
  /\ [][(lastOp'.name = "setFloodLevel" /\ lastOp'.args.seaLevelRise > 0) =>
          (Attached' /\ waterAlpha' = 0 /\ targetAlpha' = FLOOD_TARGET_ALPHA
             /\ alphaAnimating')]_vars
  /\ [][(lastOp'.name = "animate" /\ targetAlpha = FLOOD_TARGET_ALPHA) =>
          waterAlpha' >= waterAlpha]_vars
  /\ ((Flooding /\ lastOp.name = "animate")
        ~> (Steady \/ lastOp.name \in {"setFloodLevel", "clearFlood"}))
  /\ [][(Steady /\ lastOp'.name = "animate") =>
          UNCHANGED <<waterAlpha, targetAlpha, alphaAnimating, floodMaterial,
                      globeMaterial>>]_vars

\* a frame has settled the fade-in
C6_Witness ==
  /\ lastOp.name = "animate"
  /\ Steady
  /\ targetAlpha = FLOOD_TARGET_ALPHA
  /\ floodMaterial.uniforms.waterAlpha = FLOOD_TARGET_ALPHA

\* waterAlpha * floodMask of material m on fragment mi, float32
FloodOpacity(m, mi) == F32Mul(AlphaFloat(m.uniforms.waterAlpha), FloodMaskOf(m, mi))

\* the floodMask values of each flood surface of the model over the model's heights,
\* computed once
MASK_VALUES == [s \in FloodSurfaces |-> {floodMask(1, s, h) : h \in Heights}]

\* one land fragment for each texel
TexelFragments == {mi \in LandFragments : mi.height = F32Zero}

\* the floodMask values of material m over the land fragments
LandMasks(m) ==
  IF LevelUniform(m) \in 1 .. MaxSLR
  THEN UNION {MASK_VALUES[FloodSurfaceFloat(m, mi)] : mi \in TexelFragments}
  ELSE {FloodMaskOf(m, mi) : mi \in LandFragments}

\* waterAlpha * floodMask of material m on every land fragment
FloodOpacities(m) ==
  {F32Mul(alpha, mask) :
     alpha \in {AlphaFloat(m.uniforms.waterAlpha)}, mask \in LandMasks(m)}

\* C7: 0 <= waterAlpha <= targetAlpha <= 0.55, the waterAlpha uniform equals the
\* waterAlpha variable, and the flood opacity waterAlpha * floodMask of every
\* fragment is within [0, 1].
C7_OpacityInRange ==
  /\ 0 <= waterAlpha
  /\ waterAlpha <= targetAlpha
  /\ targetAlpha <= FLOOD_TARGET_ALPHA
  /\ floodMaterial # NoMaterial =>
       /\ floodMaterial.uniforms.waterAlpha = waterAlpha
       /\ \A opacity \in FloodOpacities(floodMaterial) :
            F32Leq(F32Zero, opacity) /\ F32Leq(opacity, F32Int(1))

\* a frame in the middle of a fade-in
C7_Witness ==
  /\ lastOp.name = "animate"
  /\ Attached
  /\ 0 < waterAlpha
  /\ waterAlpha < targetAlpha
  /\ floodMaterial.uniforms.waterAlpha = waterAlpha

Rendered == material # NoOutput /\ lastOp.name = "czm_getMaterial"
LandFragment == materialInput.waterMask <= WATER_MASK_HALF

\* C8: a fragment whose water mask marks open water (waterMask > 0.5) is not shaded:
\* alpha 0 and neither the flood colour nor the comparison colour, whatever the
\* uniforms, the terrain height and the geoid undulation, in both shaders.
C8_OceanExclusion ==
  (Rendered /\ materialInput.waterMask > WATER_MASK_HALF) =>
    /\ material.alpha = F32Zero
    /\ material.diffuse # FLOOD_COLOR
    /\ material.diffuse # COMPARISON_COLOR

\* an ocean fragment low enough to count as flooded and inside the comparison band
C8_Witness ==
  /\ Rendered
  /\ materialInput.waterMask > WATER_MASK_HALF
  /\ floodMaterial.uniforms.waterAlpha > 0
  /\ MaskVisible(FloodMaskOf(floodMaterial, materialInput))
  /\ OverlayOn(floodMaterial)
  /\ ~ F32Less(materialInput.height, CompSurfaceFloat(floodMaterial, materialInput))
  /\ F32Less(materialInput.height, FloodSurfaceFloat(floodMaterial, materialInput))

\* the flood decision without the overlay: flooded when floodMask > 0.001,
\* with opacity waterAlpha * floodMask
OrdinaryDecision(m, mi) ==
  IF MaskVisible(FloodMaskOf(m, mi))
  THEN [diffuse |-> FLOOD_COLOR, alpha |-> FloodOpacity(m, mi)]
  ELSE DefaultMaterial

\* lower <= h < upper of the float32 surfaces
InBand(m, mi) ==
  LET fs == FloodSurfaceFloat(m, mi)
      cs == CompSurfaceFloat(m, mi)
  IN IF F32Less(cs, fs)
     THEN ~ F32Less(mi.height, cs) /\ F32Less(mi.height, fs)
     ELSE ~ F32Less(mi.height, fs) /\ F32Less(mi.height, cs)

\* C9: with the comparison overlay on, a land fragment of height h gets the
\* comparison colour and the fixed comparison opacity exactly when lower <= h < upper,
\* lower and upper being the smaller and the larger of the flood surface and the
\* comparison surface; any other land fragment keeps the ordinary flood decision.
C9_ComparisonBandRule ==
  (Rendered /\ LandFragment /\ OverlayOn(floodMaterial)) =>
    IF InBand(floodMaterial, materialInput)
    THEN IsComparisonBand(material)
    ELSE /\ ~ IsComparisonBand(material)
         /\ material = OrdinaryDecision(floodMaterial, materialInput)

\* geoid mode: a flooded land fragment whose height is the comparison surface, the
\* band's lower edge, shaded as band while fading in
C9_Witness ==
  /\ Rendered
  /\ LandFragment
  /\ floodMaterial.type = "FloodGeoid"
  /\ OverlayOn(floodMaterial)
  /\ materialInput.height = CompSurfaceFloat(floodMaterial, materialInput)
  /\ F32Less(materialInput.height, FloodSurfaceFloat(floodMaterial, materialInput))
  /\ floodMaterial.uniforms.waterAlpha # COMPARISON_ALPHA
  /\ MaskVisible(FloodMaskOf(floodMaterial, materialInput))
  /\ IsComparisonBand(material)

\* the largest of a set of floats
F32Largest(S) == CHOOSE a \in S : \A b \in S : F32Leq(b, a)

\* for each flood surface and height of the model, the largest floodMask the shader
\* computes on that surface at a height at or above it, computed once
LARGEST_MASKS_ABOVE ==
  [s \in FloodSurfaces |->
     [h \in Heights |->
        F32Largest({floodMask(1, s, h2) : h2 \in {x \in Heights : F32Leq(h, x)}})]]

\* the largest floodMask of the same material and texel at the fragment's height or
\* above it
LargestMaskAbove ==
  LARGEST_MASKS_ABOVE[FloodSurfaceFloat(floodMaterial, materialInput)]
                     [materialInput.height]

\* the lower and the upper end of the soft edge as the shader computes them
EdgeLower == F32Sub(FloodSurfaceFloat(floodMaterial, materialInput),
                    UniformFloat(EdgeSoftness))
EdgeUpper == F32Add(FloodSurfaceFloat(floodMaterial, materialInput),
                    UniformFloat(EdgeSoftness))

\* floodMask is 1 at or below floodSurface - edgeSoftness, 0 at or above
\* floodSurface + edgeSoftness, and within [0, 1]
MaskEndsAndRange ==
  LET fm == FloodMaskOf(floodMaterial, materialInput)
  IN /\ F32Leq(F32Zero, fm) /\ F32Leq(fm, F32Int(1))
     /\ F32Leq(materialInput.height, EdgeLower) => fm = F32Int(1)
     /\ F32Leq(EdgeUpper, materialInput.height) => fm = F32Zero

\* C10 as stated: for the geoid undulation and the sea level rise of any shader
\* run, floodMask is non-increasing in the terrain height, 1 at or below
\* floodSurface - edgeSoftness, 0 at or above floodSurface + edgeSoftness, and
\* within [0, 1].
C10_FloodMaskMonotone ==
  (Rendered /\ LandFragment) =>
    /\ MaskEndsAndRange
    /\ F32Leq(LargestMaskAbove, FloodMaskOf(floodMaterial, materialInput))

\* what the three roundings of t * t * (3.0 - 2.0 * t) can add to floodMask between
\* two heights: six units in the last place of a float32 below 1
MASK_ROUNDING == F32RoundInteger(6, -24)

\* C10, amended: floodMask is non-increasing in the terrain height up to float32
\* rounding (a higher terrain never has a floodMask more than 6 * 2^-24 above that of
\* a lower one), 1 at or below floodSurface - edgeSoftness, 0 at or above
\* floodSurface + edgeSoftness, and within [0, 1].
C10_MonotoneUpToRounding ==
  (Rendered /\ LandFragment) =>
    /\ MaskEndsAndRange
    /\ F32Leq(LargestMaskAbove,
              F32Add(FloodMaskOf(floodMaterial, materialInput), MASK_ROUNDING))

\* a land fragment inside the soft edge, partly flooded, with a higher height whose
\* floodMask is larger
C10_Witness ==
  /\ Rendered
  /\ LandFragment
  /\ LevelUniform(floodMaterial) > 0
  /\ F32Less(F32Zero, FloodMaskOf(floodMaterial, materialInput))
  /\ F32Less(FloodMaskOf(floodMaterial, materialInput), F32Int(1))
  /\ material.diffuse = FLOOD_COLOR
  /\ F32Less(FloodMaskOf(floodMaterial, materialInput), LargestMaskAbove)

---------------------------------------------------------------------------
(* Claims on the simulation engine *)

SecondRunReturned == sim.pc = "done" /\ prevRun # NoRun

\* C11: two invocations of runSimulation with the same seed, the same
\* temperatureIncrease > 0 and the same iterations return identical sorted totals
\* and identical statistics, whatever Math.random() returns in between.
C11_SameSeedSameResult ==
  (/\ SecondRunReturned
   /\ prevRun.seed = sim.seed
   /\ prevRun.tempIncrease = sim.tempIncrease /\ sim.tempIncrease > 0
   /\ prevRun.iterations = sim.iterations)
    => /\ sim.ret.results = prevRun.ret.results
       /\ sim.ret.stats = prevRun.ret.stats

\* the six statistics of a summary
StatNames == {"mean", "median", "p5", "p95", "min", "max"}

Returned == sim.pc = "done"

\* C12: for temperatureIncrease <= 0, whatever the iteration count, runSimulation
\* draws no random number and returns iterations = 0, an empty sample, an all-zero
\* summary of the total and an all-zero summary for each of the five contributors.
C12_ZeroCase ==
  (Returned /\ sim.tempIncrease <= 0) =>
    /\ sim.draws = 0
    /\ sim.ret.iterations = 0
    /\ sim.ret.results = <<>>
    /\ \A name \in StatNames : sim.ret.stats[name] = Num(0)
    /\ \A key \in ContributorKeySet :
         /\ key \in DOMAIN sim.ret.contributorStats
         /\ \A name \in StatNames : sim.ret.contributorStats[key][name] = Num(0)

\* C13: runSimulation called with temperatureIncrease > 0 and iterations <= 0 ends
\* in an InvalidInput error; it returns no result with an empty sample or with
\* undefined or not-a-number statistics.
C13_InvalidIterationsRejected ==
  (Returned /\ sim.tempIncrease > 0 /\ sim.iterations <= 0) =>
    sim.ret = Throw("InvalidInput")

\* a statistic that is a number >= 0
NonNegative(stat) ==
  \/ stat.js = "number" /\ stat.v >= 0
  \/ stat.js = "quotient" /\ stat.num >= 0 /\ stat.den > 0
                          /\ F64Leq(F64Zero, stat.value)

AllOf(array, P(_)) == \A k \in 1 .. Len(array) : P(array[k])

AtLeastZero(x) == x >= 0

\* C14: for temperatureIncrease > 0 every sampled contributor value is >= 0
\* whatever Math.random() returns, so every iteration total is >= 0, and every
\* statistic reported for a run of at least one iteration is >= 0, for the total and
\* for each contributor.
C14_PostClampNonNegative ==
  (sim.pc \in {"loop", "done"} /\ sim.tempIncrease > 0) =>
    /\ AllOf(sim.results, AtLeastZero)
    /\ \A key \in ContributorKeySet : AllOf(sim.contributorTotals[key], AtLeastZero)
    /\ (Returned /\ sim.iterations >= 1) =>
         /\ \A name \in StatNames : NonNegative(sim.ret.stats[name])
         /\ \A key \in ContributorKeySet, name \in StatNames :
              NonNegative(sim.ret.contributorStats[key][name])

\* a returned run in which a contributor was clamped to 0 in one iteration and
\* positive in another
C14_Witness ==
  /\ Returned
  /\ sim.tempIncrease > 0
  /\ sim.iterations >= 2
  /\ \E key \in ContributorKeySet :
       /\ sim.ret.contributorStats[key].min = Num(0)
       /\ sim.ret.contributorStats[key].max.v > 0

\* x * n for n >= 1, x finite or infinite
Times(x, n) == IF x = Infinity THEN Infinity ELSE x * n

\* min <= p5 <= median <= p95 <= max
RankOrdered(summary) ==
  /\ summary.min.v <= summary.p5.v
  /\ summary.p5.v <= summary.median.v
  /\ summary.median.v <= summary.p95.v
  /\ summary.p95.v <= summary.max.v

\* min <= mean <= max, the mean being the float64 the code returns
MeanWithin(summary) ==
  /\ F64Leq(Float64(summary.min.v), summary.mean.value)
  /\ F64Leq(summary.mean.value, Float64(summary.max.v))

\* min <= mean <= max for the exact quotient num / den
ExactMeanWithin(summary) ==
  /\ Times(summary.min.v, summary.mean.den) <= summary.mean.num
  /\ summary.mean.num <= Times(summary.max.v, summary.mean.den)

\* x * den * 2^-52 in float64
Rounding(x, den) == F64Times(F64Scale(x, -52), den)

\* the float64 mean of n values is below min or above max by at most n * 2^-52 of
\* that bound
MeanWithinRounding(summary) ==
  LET lowest == Float64(summary.min.v)
      highest == Float64(summary.max.v)
  IN /\ F64Leq(F64Sub(lowest, Rounding(lowest, summary.mean.den)), summary.mean.value)
     /\ F64Leq(summary.mean.value,
               F64Add(highest, Rounding(highest, summary.mean.den)))

\* the summaries of a returned run: the total and each contributor
Summaries == {sim.ret.stats} \cup {sim.ret.contributorStats[key] : key \in ContributorKeySet}

\* C15 as stated: every summary runSimulation produces from a non-empty sample (the
\* total and each contributor, iterations >= 1) has min <= p5 <= median <= p95 <= max
\* and min <= mean <= max.
C15_StatisticsOrdered ==
  (Returned /\ sim.tempIncrease > 0 /\ sim.iterations >= 1) =>
    \A summary \in Summaries : RankOrdered(summary) /\ MeanWithin(summary)

\* C15: every summary runSimulation produces from a non-empty sample has
\* min <= p5 <= median <= p95 <= max; its mean is within [min, max] as the exact
\* quotient sum / n, and as the float64 the code returns up to rounding: at most
\* n * 2^-52 of min below min or of max above max.
C15_OrderedUpToRounding ==
  (Returned /\ sim.tempIncrease > 0 /\ sim.iterations >= 1) =>
    \A summary \in Summaries :
      /\ RankOrdered(summary)
      /\ ExactMeanWithin(summary)
      /\ MeanWithinRounding(summary)

\* a run of at least three passes in which the equal values of a contributor have a
\* float64 mean above their maximum
C15_Witness ==
  /\ Returned
  /\ sim.tempIncrease > 0
  /\ sim.iterations >= 3
  /\ \E key \in ContributorKeySet :
       /\ sim.ret.contributorStats[key].max.v > 0
       /\ F64Less(Float64(sim.ret.contributorStats[key].max.v),
                  sim.ret.contributorStats[key].mean.value)

\* the sum of an array over the three sample values, by counting
CountedSum(array) ==
  LET count(v) == Cardinality({k \in 1 .. Len(array) : array[k] = v})
  IN SampleValues[1] * count(SampleValues[1])
     + SampleValues[2] * count(SampleValues[2])
     + SampleValues[3] * count(SampleValues[3])

\* stat is the element of rank floor(n * num / den), counted from 0, of the array
IsNearestRank(stat, array, num, den) ==
  \E k \in 0 .. (Len(array) - 1) :
    /\ k * den <= Len(array) * num
    /\ Len(array) * num < (k + 1) * den
    /\ stat = Num(array[k + 1])

\* C16: for every ascending array of length n >= 1, computeStats returns
\* median = sorted[floor(n * 0.5)], p5 = sorted[floor(n * 0.05)],
\* p95 = sorted[floor(n * 0.95)], min = sorted[0], max = sorted[n - 1] and
\* mean = sum / n; the three ranks lie in 0 .. n-1, so every statistic but the mean
\* is an element of the array.
C16_NearestRank ==
  (statsResult # NoResult /\ Len(statsInput.array) >= 1) =>
    LET array == statsInput.array
    IN /\ IsNearestRank(statsResult.median, array, 1, 2)
       /\ IsNearestRank(statsResult.p5, array, 5, 100)
       /\ IsNearestRank(statsResult.p95, array, 95, 100)
       /\ statsResult.min = Num(array[1])
       /\ statsResult.max = Num(array[Len(array)])
       /\ statsResult.mean.num = CountedSum(array)
       /\ statsResult.mean.den = Len(array)

\* an array long enough for p5 to differ from min and p95 from max
C16_Witness ==
  /\ statsResult # NoResult
  /\ Len(statsInput.array) > 20
  /\ statsResult.p5 # statsResult.min
  /\ statsResult.p95 # statsResult.max
  /\ statsResult.median # statsResult.min
  /\ statsResult.median # statsResult.max

RECURSIVE SumOfFloatMeans(_, _)
\* the float64 contributor means, added up over the keys from k on
SumOfFloatMeans(k, contributorStats) ==
  IF k > Len(CONTRIBUTOR_KEYS) THEN F64Zero
  ELSE F64Add(contributorStats[CONTRIBUTOR_KEYS[k]].mean.value,
              SumOfFloatMeans(k + 1, contributorStats))

\* float64 values a and b differ by at most k * 2^-52 of b, or are both infinite
Near(a, b, k) ==
  IF F64IsInfinite(a) \/ F64IsInfinite(b) THEN a = b
  ELSE /\ F64Leq(F64Sub(a, b), Rounding(b, k))
       /\ F64Leq(F64Sub(b, a), Rounding(b, k))

RECURSIVE SumOfMeans(_, _)
\* the numerators of the contributor means, added up over the keys from k on
SumOfMeans(k, contributorStats) ==
  IF k > Len(CONTRIBUTOR_KEYS) THEN 0
  ELSE JsAdd(contributorStats[CONTRIBUTOR_KEYS[k]].mean.num,
             SumOfMeans(k + 1, contributorStats))

\* C17: for temperatureIncrease > 0 and iterations >= 1 the five contributor means
\* add up to the mean of the totals, exactly as exact quotients and within
\* (iterations + 4) * 2^-52 of the mean as the float64 values the code returns: every
\* series has one value per iteration, and each total is the sum of its iteration's
\* five clamped values.
C17_MeanIsLinear ==
  (Returned /\ sim.tempIncrease > 0 /\ sim.iterations >= 1) =>
    /\ sim.ret.stats.mean.den = sim.iterations
    /\ \A key \in ContributorKeySet :
         sim.ret.contributorStats[key].mean.den = sim.iterations
    /\ SumOfMeans(1, sim.ret.contributorStats) = sim.ret.stats.mean.num
    /\ Near(SumOfFloatMeans(1, sim.ret.contributorStats), sim.ret.stats.mean.value,
            sim.iterations + 4)

\* a run of several iterations in which a clamp acted
C17_Witness ==
  /\ Returned
  /\ sim.tempIncrease > 0
  /\ sim.iterations >= 2
  /\ sim.ret.stats.mean.num > 0
  /\ sim.ret.stats.mean.num < Infinity
  /\ \E key \in ContributorKeySet : sim.ret.contributorStats[key].min = Num(0)

---------------------------------------------------------------------------
(* Claims on the scenario resolver *)

ConfiguredScenarios == {"ssp126", "ssp245", "ssp585"}

Resolved == projection # NoCall

\* C18: for every scenario id other than ssp126, ssp245 and ssp585, and every year,
\* getProjectedTemp raises the unknown-scenario error and returns no temperature.
C18_UnknownScenarioFailsFast ==
  (Resolved /\ projection.scenarioId \notin ConfiguredScenarios) =>
    projection.outcome = Throw("Error: Unknown scenario id")

\* the anchors of a scenario, as the claim lists them
AnchorValue(scenarioId, year) ==
  CASE scenarioId = "ssp126" ->
         (CASE year = 2030 -> 1500 [] year = 2050 -> 1800 [] year = 2100 -> 2000)
    [] scenarioId = "ssp245" ->
         (CASE year = 2030 -> 1600 [] year = 2050 -> 2200 [] year = 2100 -> 2900)
    [] scenarioId = "ssp585" ->
         (CASE year = 2030 -> 1800 [] year = 2050 -> 2700 [] year = 2100 -> 4400)

\* value lies on the line through the anchors y0 and y1 at the given year
OnLine(value, scenarioId, y0, y1, year) ==
  (value - AnchorValue(scenarioId, y0)) * (y1 - y0)
    = (AnchorValue(scenarioId, y1) - AnchorValue(scenarioId, y0)) * (year - y0)

\* C19: for each of the three scenarios and every year getProjectedTemp returns
\* the anchor's value at 2030, 2050 and 2100, the 2030 value before 2030, the 2100
\* value after 2100, and t0 + (t1 - t0) * (year - y0) / (y1 - y0) strictly between
\* adjacent anchors; for ssp245, 2050 gives 2.2, 2040 gives 1.9, 2200 gives 2.9.
C19_ClampedPiecewiseLinear ==
  (Resolved /\ projection.scenarioId \in ConfiguredScenarios) =>
    LET id == projection.scenarioId
        year == projection.year
        value == projection.outcome.value
    IN /\ projection.outcome.kind = "return"
       /\ year \in {2030, 2050, 2100} => value = AnchorValue(id, year)
       /\ year < 2030 => value = AnchorValue(id, 2030)
       /\ year > 2100 => value = AnchorValue(id, 2100)
       /\ (2030 < year /\ year < 2050) => OnLine(value, id, 2030, 2050, year)
       /\ (2050 < year /\ year < 2100) => OnLine(value, id, 2050, 2100, year)
       /\ (id = "ssp245" /\ year = 2050) => value = 2200
       /\ (id = "ssp245" /\ year = 2040) => value = 1900
       /\ (id = "ssp245" /\ year = 2200) => value = 2900

\* the interpolated example of the claim
C19_Witness ==
  /\ Resolved
  /\ projection.scenarioId = "ssp245"
  /\ projection.year = 2040
  /\ projection.outcome = Return(1900)

---------------------------------------------------------------------------
(* Claims on start-up *)

GeoidLoadFailed == geoidLoad.response \in {"notOk", "wrongSize", "throws"}

FALLBACK_UNIFORMS == {"floodLevel", "waterAlpha", "comparisonLevel"}

\* C20: when the geoid load fails (response not OK, wrong byte size or an exception)
\* it has been attempted once and is never retried, start-up goes on to
\* initFloodVisualization, the display is set up in fallback mode, where the flood
\* surface is the flood level at every geoid texel, and the setFloodLevel, clearFlood,
\* showComparison and hideComparison calls the controls make work on the uniforms
\* floodLevel and comparisonLevel.
C20_GeoidFailureFallsBack ==
  /\ geoidLoad.fetches <= 1
  /\ geoidLoad.pc # "start" => geoidLoad.fetches = 1
  /\ GeoidLoadFailed =>
       /\ geoidLoad.canvas = "null"
       /\ geoidLoad.pc = "loaded" => ENABLED MainInit
       /\ geoidLoad.pc = "ui" =>
            /\ floodMaterial.type = "FloodFallback"
            /\ ~ useGeoidTexture
            /\ DOMAIN floodMaterial.uniforms = FALLBACK_UNIFORMS
            /\ \A mi \in LandFragments :
                 FloodSurfaceFloat(floodMaterial, mi)
                   = UniformFloat(floodMaterial.uniforms.floodLevel)
            /\ floodMaterial.uniforms.waterAlpha = waterAlpha
            /\ lastOp.name = "runSimulation" =>
                 /\ floodMaterial.uniforms.floodLevel
                      = lastOp.ret.stats[currentFloodMetric]
                 /\ floodMaterial.uniforms.comparisonLevel = 0
                 /\ Attached
            /\ (lastOp.name = "compareClick" /\ lastOp.ret = "shown") =>
                 floodMaterial.uniforms.comparisonLevel = previousSnapshot.seaLevelRise
            /\ (lastOp.name = "compareClick" /\ lastOp.ret = "hidden") =>
                 floodMaterial.uniforms.comparisonLevel = 0
            /\ lastOp.name = "resetClick" =>
                 /\ floodMaterial.uniforms.comparisonLevel = 0
                 /\ ~ Attached

\* after a load that failed on the byte size, the compare button shows the previous
\* run in fallback mode
C20_Witness ==
  /\ geoidLoad.response = "wrongSize"
  /\ geoidLoad.pc = "ui"
  /\ lastOp.name = "compareClick"
  /\ lastOp.ret = "shown"
  /\ floodMaterial.uniforms.floodLevel > 0
  /\ floodMaterial.uniforms.comparisonLevel > 0
  /\ floodMaterial.uniforms.comparisonLevel # floodMaterial.uniforms.floodLevel

\* C21: after any sequence of Reset, preset, plus and minus clicks the active
\* temperature is within [0, 10] and a multiple of 0.05, and every runSimulation
\* call, made or still pending, has a temperature in (0, 10] and 5000 iterations.
RunTemperatureOk(tempIncrease) == tempIncrease > 0 /\ tempIncrease <= 10000

C21_TemperatureRange ==
  /\ currentActiveTemp >= 0
  /\ currentActiveTemp <= 10000
  /\ currentActiveTemp % 50 = 0
  /\ \A i \in 1 .. Len(rafCallbacks) : RunTemperatureOk(rafCallbacks[i])
  /\ lastOp.name = "runSimulation" =>
        /\ RunTemperatureOk(lastOp.args.tempIncrease)
        /\ lastOp.args.iterations = 5000

\* a plus click at +10 degrees has queued a run at +10 degrees
C21_Witness ==
  /\ lastOp.name = "plusClick"
  /\ currentActiveTemp = 10000
  /\ rafCallbacks = <<10000>>

\* C22: switching the flood display mode while a simulation result is shown runs
\* no simulation and records no snapshot: the stored result and both snapshots are
\* unchanged, no run is queued, and the displayed flood level becomes the selected
\* statistic of the stored result.
ResultShown == currentSimulationResult # Null /\ globeMaterial = "floodMaterial"

MetricSwitched ==
  lastOp'.name = "metricClick" /\ currentFloodMetric' # currentFloodMetric

C22_MetricToggleReusesRun ==
  [][(ResultShown /\ MetricSwitched) =>
       /\ currentSimulationResult' = currentSimulationResult
       /\ currentSnapshot' = currentSnapshot
       /\ previousSnapshot' = previousSnapshot
       /\ rafCallbacks' = rafCallbacks
       /\ LevelUniform(floodMaterial') =
            currentSimulationResult.stats[currentFloodMetric']]_vars

\* C23: at most one animate callback is pending in requestAnimationFrame, and after
\* destroyFloodVisualization none is pending and none runs, so no tick changes
\* waterAlpha any more.
C23_SingleAnimationDriver ==
  /\ animatePending <= 1
  /\ destroyed => (animatePending = 0 /\ lastOp.name # "animate")

\* the display was destroyed in the middle of a fade-in, which stays where it was
C23_Witness ==
  /\ destroyed
  /\ alphaAnimating
  /\ waterAlpha > 0
  /\ waterAlpha < targetAlpha

\* C24: an animation tick never changes the comparison uniform or either snapshot,
\* and showComparison and hideComparison never change waterAlpha, targetAlpha,
\* alphaAnimating, the flood-level uniform, the material attachment or either
\* snapshot.
TickStep == lastOp'.name = "animate"

ComparisonToggleStep == lastOp'.name \in {"showComparison", "hideComparison"}

C24_FadeAndComparisonIndependent ==
  [][/\ TickStep =>
          /\ ComparisonUniform(floodMaterial') = ComparisonUniform(floodMaterial)
          /\ UNCHANGED <<previousSnapshot, currentSnapshot>>
     /\ ComparisonToggleStep =>
          /\ UNCHANGED <<waterAlpha, targetAlpha, alphaAnimating, globeMaterial,
                         previousSnapshot, currentSnapshot>>
          /\ floodMaterial'.uniforms.waterAlpha = floodMaterial.uniforms.waterAlpha
          /\ LevelUniform(floodMaterial') = LevelUniform(floodMaterial)]_vars

\* a tick has advanced the fade-in while the comparison overlay was on
C24_Witness ==
  /\ lastOp.name = "animate"
  /\ ComparisonUniform(floodMaterial) # 0
  /\ alphaAnimating
  /\ waterAlpha > 0

\* C25: once Reset (or a minus click that reaches 0) has been handled, and until a
\* temperature button is clicked again, the display stays at baseline: active
\* temperature 0, no stored result, no flood material attached, no current
\* snapshot; also when a deferred run was pending at the time of the reset.
Baseline ==
  /\ currentActiveTemp = 0
  /\ currentSimulationResult = Null
  /\ globeMaterial = "undefined"
  /\ currentSnapshot = NoSnapshot

ResetHandled ==
  \/ lastOp'.name = "resetClick"
  \/ lastOp'.name = "minusClick" /\ currentActiveTemp' = 0

TemperatureClick == lastOp'.name \in {"presetClick", "plusClick", "minusClick"}

C25_ResetWinsOverDeferredRun ==
  [][/\ ResetHandled => Baseline'
     /\ (Baseline /\ ~ TemperatureClick) => Baseline']_vars

\* C26: the compare button's comparing flag is true only while the overlay set by the
\* last showComparison is still on (not reset since by setFloodLevel, clearFlood or
\* hideComparison), so one click on a button labelled "Compare with Previous"
\* always attempts showComparison.
OverlayStillOn ==
  floodMaterial # NoMaterial /\ ComparisonUniform(floodMaterial) # 0

C26_ComparingAgreesWithOverlay ==
  /\ comparing => OverlayStillOn
  /\ compareBtn.textContent = COMPARE_LABEL => ~ comparing

\* C27: whenever updateCompareButton has left the compare button enabled, both a
\* current and a previous snapshot exist, so showComparison returns true.
C27_EnabledCompareCanShow ==
  ~ compareBtn.disabled =>
     /\ currentSnapshot # NoSnapshot
     /\ previousSnapshot # NoSnapshot
     /\ showComparisonReturn(ModuleState)

\* C28: clearFlood is idempotent: a clearFlood call that directly follows a
\* clearFlood call changes nothing (snapshots, waterAlpha, targetAlpha,
\* alphaAnimating, uniforms, attachment); a previous snapshot recorded by the first
\* clear survives the second.
SecondClearInARow == lastOp.name = "clearFlood" /\ lastOp'.name = "clearFlood"

C28_ClearFloodIdempotent ==
  [][SecondClearInARow => ModuleState' = ModuleState]_vars

\* C29: for every non-empty sorted sample passed to updateHistogram, every bin
\* index is an integer in 0 .. 29 and the 30 bin counts sum to the sample length.
RECURSIVE BinTotal(_, _)
BinTotal(bins, b) ==
  IF b >= BIN_COUNT THEN 0 ELSE bins[b] + BinTotal(bins, b + 1)

IsBinIndex(binIndex) == binIndex # NaN /\ binIndex.v \in 0 .. 29

C29_BinningConservesSample ==
  histogram # NoCall =>
    /\ \A i \in 1 .. Len(histogram.data) : IsBinIndex(histogram.binIndex[i])
    /\ BinTotal(histogram.bins, 0) = Len(histogram.data)

\* C30: for any sequence of Previous, Next and dot clicks, repeated Next clicks on
\* the last slide during the fade-out included, the slide index stays within 0 .. 3,
\* the overlay is removed once, the promise resolves once, and no click handler or
\* timer callback dereferences overlayEl after it was set to null.
C30_DismissedExactlyOnce ==
  /\ currentSlide \in 0 .. 3
  /\ onboarding.removed <= 1
  /\ onboarding.resolved <= 1
  /\ onboarding.nullDeref = 0

====
